---- MODULE Spec2Model ----
(***************************************************************************)
(* Model of the MEAN-QUANT analytics engine, server/utils/quantAnalysis.js *)
(* and of the route handlers and model methods that keep the portfolio and *)
(* the price history it is fed from.                                       *)
(*                                                                         *)
(* The engine is a library of pure functions over arrays of JavaScript     *)
(* Numbers.  A state of the model is one caller: the arrays and the period *)
(* it holds (x, y, period, the confidence level conf, the deviation        *)
(* multiplier mult, the three MACD periods, the optional benchmarkPrices), *)
(* the function it called last (op) and what that call produced (res),     *)
(* together with the stored documents: one portfolio and the stocks of the *)
(* store.  Each action is one call of one exported function, one model     *)
(* method or one request.                                                  *)
(*                                                                         *)
(* A JavaScript Number is modelled in one of two ways, chosen by the       *)
(* caller's input:                                                         *)
(*   <<n, d>>      the rational n/d in lowest terms, d > 0, with exact     *)
(*                 arithmetic (the real number the code aims at);          *)
(*                 <<1, 0>> is +Infinity, <<-1, 0>> -Infinity and <<0, 0>> *)
(*                 NaN (also what reading a missing array element, i.e.    *)
(*                 undefined, becomes in arithmetic)                       *)
(*   <<s, M, e>>   the IEEE 754 double s * M * 2^e, with every operation   *)
(*                 rounded as the machine rounds it                        *)
(* Next to doubles the only fractions are the whole numbers the code       *)
(* supplies (0, 1, a length), stored as doubles when they are used.        *)
(* Irrational results (square roots, logarithms, fractional powers) are    *)
(* kept symbolically, as records naming the argument.                      *)
(***************************************************************************)
EXTENDS Integers, Sequences, FiniteSets, TLC

VARIABLES x, y, period, conf, mult, op, res,
          fastPeriod, slowPeriod, signalPeriod, benchmarkPrices,
          portfolio, stocks

vars == <<x, y, period, conf, mult, op, res,
          fastPeriod, slowPeriod, signalPeriod, benchmarkPrices,
          portfolio, stocks>>

\* the arguments of calculateMACD and generateStatsSummary that no other
\* function takes
otherArgs == <<fastPeriod, slowPeriod, signalPeriod, benchmarkPrices>>

\* the stored documents
documents == <<portfolio, stocks>>

(***************************************************************************)
(* Bounds of the model                                                     *)
(***************************************************************************)
MaxLen == 4
MaxPrice == 3
MaxPairLen == 3
MaxPairVal == 1
MaxWinLen == 3
MaxWinPrice == 2
MaxRetLen == 3
MaxRetNum == 2
MaxMult == 1
MaxTailLen == 3
MaxMacdLen == 4
MaxMacdPeriod == 3
MaxSummaryLen == 5
MaxCumLen == 3
MaxTransactions == 2
MaxShares == 2
MaxBodyLen == 2
MaxDate == 2
MaxHistory == 3

\* default of the tradingDays parameter
DefaultTradingDays == 252

\* default of the confidenceLevel parameter, 0.95
DefaultConfidenceLevel == <<19, 20>>

\* default of the riskFreeRate parameter, 0.02
DefaultRiskFreeRate == <<1, 50>>

\* default of the stdDevMultiplier parameter
DefaultStdDevMultiplier == 2

DefaultRsiPeriod == 14

\* defaults of the fastPeriod, slowPeriod and signalPeriod parameters
DefaultFastPeriod == 12

DefaultSlowPeriod == 26

DefaultSignalPeriod == 9

\* the default of benchmarkPrices, and an array passed for it
Null == [given |-> FALSE, array |-> <<>>]

Given(array) == [given |-> TRUE, array |-> array]

\* a portfolio document as created: no holdings, no transactions
NewPortfolio == [holdings |-> <<>>, transactions |-> <<>>, cashBalance |-> <<0, 1>>]

\* a caller of the engine alone: default periods, no benchmark
EngineOnlyArgs ==
  /\ fastPeriod = DefaultFastPeriod
  /\ slowPeriod = DefaultSlowPeriod
  /\ signalPeriod = DefaultSignalPeriod
  /\ benchmarkPrices = Null

\* no stored document is involved
NoDocuments ==
  /\ portfolio = NewPortfolio
  /\ stocks = <<>>

(***************************************************************************)
(* Integers and fractions                                                  *)
(***************************************************************************)
Abs(i) == IF i < 0 THEN -i ELSE i

Sgn(i) == IF i > 0 THEN 1 ELSE IF i < 0 THEN -1 ELSE 0

RECURSIVE Gcd(_, _)
Gcd(a, b) == IF b = 0 THEN a ELSE Gcd(b, a % b)

Norm(n, d) ==
  IF d = 0 THEN <<Sgn(n), 0>>
  ELSE LET g == Gcd(Abs(n), Abs(d))
           s == Sgn(d)
       IN <<(s * n) \div g, (s * d) \div g>>

(***************************************************************************)
(* Natural numbers of any size, as little-endian sequences of limbs        *)
(* (the significands of doubles do not fit the model checker's integers)   *)
(***************************************************************************)
\* bits of one limb of a natural number, and the limb base
LimbBits == 3 * 5

Base == 2 ^ LimbBits

\* significand width of an IEEE 754 binary64: 52 stored bits and the hidden one
Precision == 52 + 1

RECURSIVE LimbsOf(_)
LimbsOf(n) == IF n = 0 THEN <<>> ELSE <<n % Base>> \o LimbsOf(n \div Base)

RECURSIVE TrimLimbs(_)
TrimLimbs(a) ==
  IF a = <<>> \/ a[Len(a)] # 0 THEN a ELSE TrimLimbs(SubSeq(a, 1, Len(a) - 1))

LimbAt(a, i) == IF i <= Len(a) THEN a[i] ELSE 0

RECURSIVE AddNatFrom(_, _, _, _)
AddNatFrom(a, b, i, c) ==
  IF i > Len(a) /\ i > Len(b) THEN (IF c = 0 THEN <<>> ELSE <<c>>)
  ELSE LET s == LimbAt(a, i) + LimbAt(b, i) + c
       IN <<s % Base>> \o AddNatFrom(a, b, i + 1, s \div Base)

AddNat(a, b) == AddNatFrom(a, b, 1, 0)

RECURSIVE SubNatFrom(_, _, _, _)
SubNatFrom(a, b, i, c) ==
  IF i > Len(a) THEN <<>>
  ELSE LET s == LimbAt(a, i) - LimbAt(b, i) - c
       IN <<s % Base>> \o SubNatFrom(a, b, i + 1, IF s < 0 THEN 1 ELSE 0)

\* a - b for a >= b
SubNat(a, b) == TrimLimbs(SubNatFrom(a, b, 1, 0))

RECURSIVE CmpNatFrom(_, _, _)
CmpNatFrom(a, b, i) ==
  IF i = 0 THEN 0
  ELSE IF a[i] # b[i] THEN Sgn(a[i] - b[i])
  ELSE CmpNatFrom(a, b, i - 1)

\* -1, 0 or 1 as a < b, a = b or a > b
CmpNat(a, b) ==
  IF Len(a) # Len(b) THEN Sgn(Len(a) - Len(b)) ELSE CmpNatFrom(a, b, Len(a))

RECURSIVE MulSmallFrom(_, _, _, _)
MulSmallFrom(a, k, i, c) ==
  IF i > Len(a) THEN (IF c = 0 THEN <<>> ELSE <<c>>)
  ELSE LET p == a[i] * k + c
       IN <<p % Base>> \o MulSmallFrom(a, k, i + 1, p \div Base)

\* a * k for one limb k
MulSmall(a, k) == IF k = 0 THEN <<>> ELSE MulSmallFrom(a, k, 1, 0)

\* a * Base^q
ShiftLimbs(a, q) ==
  IF a = <<>> THEN <<>>
  ELSE [i \in 1..(Len(a) + q) |-> IF i <= q THEN 0 ELSE a[i - q]]

RECURSIVE MulNatFrom(_, _, _)
MulNatFrom(a, b, j) ==
  IF j > Len(b) THEN <<>>
  ELSE AddNat(ShiftLimbs(MulSmall(a, b[j]), j - 1), MulNatFrom(a, b, j + 1))

MulNat(a, b) == MulNatFrom(a, b, 1)

\* a * 2^s
ShiftLeftBits(a, s) ==
  ShiftLimbs(MulSmall(a, 2 ^ (s % LimbBits)), s \div LimbBits)

RECURSIVE QuotientDigit(_, _, _, _)
\* the largest t below Base with d * t <= r, found bit by bit
QuotientDigit(r, d, bit, t) ==
  IF bit < 0 THEN t
  ELSE IF CmpNat(MulSmall(d, t + 2 ^ bit), r) <= 0
  THEN QuotientDigit(r, d, bit - 1, t + 2 ^ bit)
  ELSE QuotientDigit(r, d, bit - 1, t)

RECURSIVE DivNatFrom(_, _, _, _, _)
\* the step of the long division that found the digit t for the running
\* remainder r2
DivNatDigit(a, d, i, q, r2, t) ==
  IF t = 0 THEN DivNatFrom(a, d, i - 1, <<0>> \o q, r2)
  ELSE DivNatFrom(a, d, i - 1, <<t>> \o q, SubNat(r2, MulSmall(d, t)))

DivNatStep(a, d, i, q, r2) ==
  DivNatDigit(a, d, i, q, r2, QuotientDigit(r2, d, LimbBits - 1, 0))

\* long division of a by d # 0 from limb i down: <<quotient, remainder>>
DivNatFrom(a, d, i, q, r) ==
  IF i = 0 THEN <<TrimLimbs(q), r>>
  ELSE DivNatStep(a, d, i, q, TrimLimbs(<<a[i]>> \o r))

DivNat(a, d) == DivNatFrom(a, d, Len(a), <<>>, <<>>)

\* floor(a / 2^s)
ShiftRightBits(a, s) ==
  LET q == s \div LimbBits
      p == 2 ^ (s % LimbBits)
  IN IF q >= Len(a) THEN <<>>
     ELSE TrimLimbs([i \in 1..(Len(a) - q) |->
                       (a[q + i] \div p) + (LimbAt(a, q + i + 1) % p) * (Base \div p)])

\* a mod 2^s
LowBits(a, s) ==
  LET q == s \div LimbBits
      p == 2 ^ (s % LimbBits)
  IN IF q >= Len(a) THEN a
     ELSE TrimLimbs([i \in 1..(q + 1) |-> IF i <= q THEN a[i] ELSE a[i] % p])

RECURSIVE IntBitLen(_)
IntBitLen(n) == IF n = 0 THEN 0 ELSE 1 + IntBitLen(n \div 2)

BitLen(a) ==
  IF a = <<>> THEN 0 ELSE LimbBits * (Len(a) - 1) + IntBitLen(a[Len(a)])

RECURSIVE IntOf(_)
\* the value of a, for a below 2^30 (larger ones are cut to 2^30)
IntOf(a) ==
  IF a = <<>> THEN 0
  ELSE IF Len(a) > 2 THEN 2 ^ 30
  ELSE a[1] + Base * IntOf(Tail(a))

RECURSIVE IntLowZeros(_)
IntLowZeros(n) == IF n % 2 = 1 THEN 0 ELSE 1 + IntLowZeros(n \div 2)

RECURSIVE LowZeros(_)
\* number of trailing zero bits of a # 0
LowZeros(a) ==
  IF a[1] # 0 THEN IntLowZeros(a[1]) ELSE LimbBits + LowZeros(Tail(a))

(***************************************************************************)
(* IEEE 754 binary64 arithmetic, round to nearest, ties to even.           *)
(* A finite double is <<s, M, e>>: the number s * M * 2^e with sign s in   *)
(* {-1, 0, 1} and odd significand M.  The exponent range is not modelled   *)
(* (no overflow to Infinity, no subnormals), nor is the sign of zero.      *)
(***************************************************************************)
DZero == <<0, <<>>, 0>>

\* bit j (counted from 0) of a
BitAt(a, j) == (LimbAt(a, j \div LimbBits + 1) \div 2 ^ (j % LimbBits)) % 2

\* the double s * M * 2^e, M of at most Precision bits, in canonical form
\* (odd significand)
Canon(s, M, e) ==
  IF M = <<>> THEN DZero
  ELSE <<s, ShiftRightBits(M, LowZeros(M)), e + LowZeros(M)>>

\* M without its lowest k bits, rounded to nearest: up when the bits cut off
\* are above half a unit, or exactly half with an odd quotient (ties to even)
RoundedOff(M, k, sticky) ==
  IF BitAt(M, k - 1) = 1
     /\ (sticky \/ BitAt(M, k) = 1 \/ LowBits(M, k - 1) # <<>>)
  THEN AddNat(ShiftRightBits(M, k), <<1>>)
  ELSE ShiftRightBits(M, k)

RECURSIVE Round(_, _, _, _)
\* s * M * 2^e (plus a nonzero fraction of 2^e when sticky) rounded to the
\* nearest double
Round(s, M, e, sticky) ==
  IF BitLen(M) > Precision
  THEN Round(s, RoundedOff(M, BitLen(M) - Precision, sticky),
             e + (BitLen(M) - Precision), FALSE)
  ELSE Canon(s, M, e)

FromInt(i) == Canon(Sgn(i), LimbsOf(Abs(i)), 0)

D_Neg(a) == <<-a[1], a[2], a[3]>>

\* sa * Ma * 2^e + sb * Mb * 2^e, c the order of Ma and Mb
AddAligned(sa, Ma, sb, Mb, e, c) ==
  Round(IF sa = sb \/ c >= 0 THEN sa ELSE sb,
        IF sa = sb THEN AddNat(Ma, Mb)
        ELSE SubNat(IF c >= 0 THEN Ma ELSE Mb, IF c >= 0 THEN Mb ELSE Ma),
        e, FALSE)

\* a + b with both significands scaled to the exponent e
AddAt(a, Ma, b, Mb, e) == AddAligned(a[1], Ma, b[1], Mb, e, CmpNat(Ma, Mb))

\* the significands of a and b at their lower exponent e
Aligned(a, b, e) == [i \in 1..2 |-> ShiftLeftBits(<<a, b>>[i][2], <<a, b>>[i][3] - e)]

AddScaled(a, b, M, e) == AddAt(a, M[1], b, M[2], e)

MinExponent(a, b) == IF a[3] < b[3] THEN a[3] ELSE b[3]

D_Add(a, b) ==
  IF a[1] = 0 THEN b
  ELSE IF b[1] = 0 THEN a
  ELSE AddScaled(a, b, Aligned(a, b, MinExponent(a, b)), MinExponent(a, b))

D_Sub(a, b) == D_Add(a, D_Neg(b))

D_Mul(a, b) ==
  IF a[1] = 0 \/ b[1] = 0 THEN DZero
  ELSE Round(a[1] * b[1], MulNat(a[2], b[2]), a[3] + b[3], FALSE)

\* s * (quotient qr[1], with remainder qr[2]) * 2^e
RoundQuotient(s, qr, e) == Round(s, qr[1], e, qr[2] # <<>>)

\* a / b with a's significand scaled by 2^sh, so that the quotient has more
\* than Precision bits
DivScaled(a, b, sh) ==
  RoundQuotient(a[1] * b[1], DivNat(ShiftLeftBits(a[2], sh), b[2]),
                a[3] - sh - b[3])

\* a / b for b # 0
D_Div(a, b) ==
  IF a[1] = 0 THEN DZero ELSE DivScaled(a, b, BitLen(b[2]) + Precision + 2)

\* |a| < |b| for a, b # 0 with significands M scaled to one exponent
MagnitudeLt(a, b, M) ==
  IF BitLen(a[2]) + a[3] # BitLen(b[2]) + b[3]
  THEN BitLen(a[2]) + a[3] < BitLen(b[2]) + b[3]
  ELSE CmpNat(M[1], M[2]) < 0

D_Lt(a, b) ==
  IF a[1] # b[1] THEN a[1] < b[1]
  ELSE IF a[1] = 0 THEN FALSE
  ELSE IF a[1] > 0 THEN MagnitudeLt(a, b, Aligned(a, b, MinExponent(a, b)))
  ELSE MagnitudeLt(b, a, Aligned(b, a, MinExponent(a, b)))

RECURSIVE SqrtNatFrom(_, _)
\* Newton's iteration for floor(sqrt(n)) from an estimate r >= sqrt(n), with
\* next the following estimate (r + n / r) / 2
SqrtNatStep(n, r, next) ==
  IF CmpNat(next, r) >= 0 THEN r ELSE SqrtNatFrom(n, next)

SqrtNatFrom(n, r) ==
  SqrtNatStep(n, r, ShiftRightBits(AddNat(r, DivNat(n, r)[1]), 1))

\* floor(sqrt(n)) for n # 0
SqrtNat(n) == SqrtNatFrom(n, ShiftLeftBits(<<1>>, (BitLen(n) + 1) \div 2))

\* sqrt(n * 2^e) for e even, from the root r of n
RoundRoot(n, r, e) == Round(1, r, e \div 2, CmpNat(MulNat(r, r), n) # 0)

\* sqrt(M * 2^e) with M scaled by 2^sh, e - sh even, so that the root has
\* more than Precision bits
SqrtScaled(M, e) == RoundRoot(M, SqrtNat(M), e)

\* the least sh >= 2 * (Precision + 2) - BitLen(M) with e - sh even
RootShift(M, e) ==
  2 * (Precision + 2) - BitLen(M) + ((e + BitLen(M)) % 2)

\* Math.sqrt of a double a > 0
D_Sqrt(a) ==
  SqrtScaled(ShiftLeftBits(a[2], RootShift(a[2], a[3])),
             a[3] - RootShift(a[2], a[3]))

(***************************************************************************)
(* JavaScript Number arithmetic: on <<n, d>> exact, on doubles rounded     *)
(***************************************************************************)
NaN == <<0, 0>>

PosInf == <<1, 0>>

NegInf == <<-1, 0>>

Num(i) == <<i, 1>>

Zero == <<0, 1>>

One == <<1, 1>>

IsDouble(a) == Len(a) = 3

\* (the number is written on the left of = wherever the other side may be a
\* symbolic record)
IsNaN(a) == NaN = a

IsFinite(a) == IsDouble(a) \/ a[2] # 0

IsZero(a) == Zero = a \/ DZero = a

IsOne(a) == One = a \/ FromInt(1) = a

\* -1, 0 or 1 for a number other than NaN
SignOf(a) == IF IsDouble(a) THEN a[1] ELSE Sgn(a[1])

\* the double a finite number is stored as: n/d rounded to nearest
\* the double of a Number; next to doubles the code supplies whole numbers
\* only (0, 1, an array length, a count of days): an integer n is <<n, 1>>
ToDouble(a) == IF IsDouble(a) THEN a ELSE [d \in {1} |-> FromInt(a[1])][a[2]]

\* the double that the decimal literal n/d denotes
Dec(n, d) == D_Div(FromInt(n), FromInt(d))

\* the operands of a rounded operation
Doubles(a, b) == [i \in 1..2 |-> ToDouble(<<a, b>>[i])]

\* an operation on two finite Numbers, one of them a double, is rounded
Rounded(a, b) == (IsDouble(a) \/ IsDouble(b)) /\ IsFinite(a) /\ IsFinite(b)

\* a finite operand next to an infinite or NaN one: only its sign matters
SignOnly(a) == IF IsDouble(a) THEN <<a[1], 1>> ELSE a

Neg(a) == IF IsDouble(a) THEN D_Neg(a) ELSE <<-a[1], a[2]>>

ExactAdd(a, b) ==
  IF a[2] = 0 \/ b[2] = 0
  THEN IF IsNaN(a) \/ IsNaN(b) THEN NaN
       ELSE IF a[2] = 0 /\ b[2] = 0 THEN (IF a = b THEN a ELSE NaN)
       ELSE IF a[2] = 0 THEN a ELSE b
  ELSE Norm(a[1] * b[2] + b[1] * a[2], a[2] * b[2])

DoubleAdd(p) == D_Add(p[1], p[2])

Add(a, b) ==
  IF Rounded(a, b) THEN DoubleAdd(Doubles(a, b))
  ELSE ExactAdd(SignOnly(a), SignOnly(b))

Sub(a, b) == Add(a, Neg(b))

ExactMul(a, b) ==
  IF a[2] = 0 \/ b[2] = 0
  THEN <<Sgn(a[1]) * Sgn(b[1]), 0>>
  ELSE Norm(a[1] * b[1], a[2] * b[2])

DoubleMul(p) == D_Mul(p[1], p[2])

Mul(a, b) ==
  IF Rounded(a, b) THEN DoubleMul(Doubles(a, b))
  ELSE ExactMul(SignOnly(a), SignOnly(b))

ExactDiv(a, b) ==
  IF IsNaN(a) \/ IsNaN(b) THEN NaN
  ELSE IF b[2] = 0 THEN (IF a[2] = 0 THEN NaN ELSE Zero)
  ELSE IF a[2] = 0 THEN (IF b[1] < 0 THEN Neg(a) ELSE a)
  ELSE IF b[1] = 0 THEN <<Sgn(a[1]), 0>>
  ELSE Norm(a[1] * b[2], a[2] * b[1])

DoubleDiv(p) == D_Div(p[1], p[2])

Div(a, b) ==
  IF Rounded(a, b) /\ ~IsZero(b) THEN DoubleDiv(Doubles(a, b))
  ELSE ExactDiv(SignOnly(a), SignOnly(b))

ExactLt(a, b) ==
  /\ ~IsNaN(a)
  /\ ~IsNaN(b)
  /\ IF a[2] = 0 \/ b[2] = 0
     THEN (IF a[2] = 0 THEN a[1] ELSE 0) < (IF b[2] = 0 THEN b[1] ELSE 0)
     ELSE a[1] * b[2] < b[1] * a[2]

DoubleLt(p) == D_Lt(p[1], p[2])

Lt(a, b) ==
  IF Rounded(a, b) THEN DoubleLt(Doubles(a, b))
  ELSE ExactLt(SignOnly(a), SignOnly(b))

Gt(a, b) == Lt(b, a)

Le(a, b) == ~IsNaN(a) /\ ~IsNaN(b) /\ ~Lt(b, a)

Ge(a, b) == Le(b, a)

\* Math.abs
MathAbs(a) == IF SignOf(a) < 0 THEN Neg(a) ELSE a

\* arr[i] of a JavaScript array, i counted from 0; a missing element is
\* undefined, which arithmetic and comparison treat as NaN
At(arr, i) == IF i >= 0 /\ i < Len(arr) THEN arr[i + 1] ELSE NaN

\* Array.prototype.slice(start, end), negative positions counted from the end
Slice(arr, start, end) ==
  LET n == Len(arr)
      s == IF start < 0 THEN (IF n + start < 0 THEN 0 ELSE n + start)
           ELSE IF start > n THEN n ELSE start
      e == IF end < 0 THEN (IF n + end < 0 THEN 0 ELSE n + end)
           ELSE IF end > n THEN n ELSE end
  IN IF s >= e THEN <<>> ELSE [k \in 1..(e - s) |-> arr[s + k]]

\* arr.slice(start, end): the new array, next to arr as the call leaves it
Sliced(arr, start, end) == [slice |-> Slice(arr, start, end), array |-> arr]

\* a whole number the code writes next to the elements of arr: a double when
\* they are doubles
Literal(arr, n) ==
  IF \E k \in 1..Len(arr) : IsDouble(arr[k]) THEN FromInt(n) ELSE Num(n)

RECURSIVE SumTo(_, _)
\* the reduction from its state st: the index reached and the accumulator
SumTo(arr, st) ==
  IF st.i >= Len(arr) THEN st.sum
  ELSE SumTo(arr, [i |-> st.i + 1, sum |-> Add(st.sum, At(arr, st.i))])

\* arr.reduce((a, b) => a + b, 0)
Sum(arr) == SumTo(arr, [i |-> 0, sum |-> Zero])

\* outcome of a call: a returned value, or a thrown Error
Ok(v) == [t |-> "ok", v |-> v]

Throw(msg) == [t |-> "throw", msg |-> msg]

(***************************************************************************)
(* Return transforms                                                       *)
(***************************************************************************)
calculateReturns_FromZero(prices) ==
  [k \in 1..Len(prices) |->
     Div(Sub(At(prices, k - 1), At(prices, k - 2)), At(prices, k - 2))]

calculateReturns_DivByCurrent(prices) ==
  [k \in 1..(IF Len(prices) = 0 THEN 0 ELSE Len(prices) - 1) |->
     Div(Sub(At(prices, k), At(prices, k - 1)), At(prices, k))]

\* for (i = 1; i < prices.length; i++) push((p[i] - p[i-1]) / p[i-1])
calculateReturns(prices) ==
  [k \in 1..(IF Len(prices) = 0 THEN 0 ELSE Len(prices) - 1) |->
     Div(Sub(At(prices, k), At(prices, k - 1)), At(prices, k - 1))]

\* Math.log(q): NaN for q < 0 or NaN, -Infinity at 0, Infinity at Infinity,
\* otherwise the real number ln(q), kept as the record [ln |-> q]
MathLog(q) ==
  IF IsNaN(q) \/ Lt(q, Zero) THEN NaN
  ELSE IF IsZero(q) THEN NegInf
  ELSE IF q = PosInf THEN PosInf
  ELSE IF IsOne(q) THEN Zero
  ELSE [ln |-> q]

\* for (i = 1; i < prices.length; i++) push(Math.log(p[i] / p[i-1]))
calculateLogReturns(prices) ==
  [k \in 1..(IF Len(prices) = 0 THEN 0 ELSE Len(prices) - 1) |->
     MathLog(Div(At(prices, k), At(prices, k - 1)))]

\* the running sum of the returns instead of the running product
calculateCumulativeReturns_RunningSum(returns) ==
  [k \in 1..Len(returns) |-> Sum(Slice(returns, 0, k))]

\* product *= (1 + r); cumulative.push(product - 1): the state after the
\* iteration that computed product
CumulativePush(returns, product, st) ==
  [i |-> st.i + 1,
   product |-> product,
   cumulative |-> Append(st.cumulative, Sub(product, Literal(returns, 1)))]

RECURSIVE CumulativeLoop(_, _)
\* for (const r of returns) from its state st
CumulativeLoop(returns, st) ==
  IF st.i >= Len(returns) THEN st.cumulative
  ELSE CumulativeLoop(returns,
         CumulativePush(returns,
           Mul(st.product, Add(Literal(returns, 1), At(returns, st.i))), st))

\* let product = 1; for (const r of returns) { ... } return cumulative
calculateCumulativeReturns(returns) ==
  CumulativeLoop(returns,
    [i |-> 0, product |-> Literal(returns, 1), cumulative |-> <<>>])

\* Math.pow(b, e) where it is exact: NaN, 0, 1, b or an infinity
PowIsExact(b, e) ==
  \/ IsNaN(e) \/ IsNaN(b) \/ e = Zero \/ e = One
  \/ ~IsFinite(e) \/ ~IsFinite(b)
  \/ IsZero(b) \/ IsOne(b)
  \/ (Lt(b, Zero) /\ e[2] # 1)

\* Math.pow(b, e): the exact cases of Number::exponentiate, otherwise the real
\* number b^e, kept as the record [pow |-> b, exp |-> e]
MathPow(b, e) ==
  IF IsNaN(e) THEN NaN
  ELSE IF e = Zero THEN One
  ELSE IF IsNaN(b) THEN NaN
  ELSE IF e = One THEN b
  ELSE IF ~IsFinite(e)
  THEN (IF IsOne(b) \/ IsOne(Neg(b)) THEN NaN
        ELSE IF b = PosInf \/ b = NegInf \/ Gt(b, One) \/ Lt(b, Neg(One))
        THEN (IF e = PosInf THEN PosInf ELSE Zero)
        ELSE (IF e = PosInf THEN Zero ELSE PosInf))
  ELSE IF b = PosInf THEN (IF Gt(e, Zero) THEN PosInf ELSE Zero)
  ELSE IF b = NegInf
  THEN (IF Lt(e, Zero) THEN Zero
        ELSE IF e[2] = 1 /\ e[1] % 2 = 1 THEN NegInf ELSE PosInf)
  ELSE IF IsZero(b) THEN (IF Gt(e, Zero) THEN Zero ELSE PosInf)
  ELSE IF IsOne(b) THEN One
  ELSE IF Lt(b, Zero) /\ e[2] # 1 THEN NaN
  ELSE [pow |-> b, exp |-> e]

RECURSIVE CompoundFrom(_, _)
\* returns.reduce((acc, r) => acc * (1 + r), 1), from position k on
CompoundFrom(returns, k) ==
  IF k = 0 THEN One
  ELSE Mul(CompoundFrom(returns, k - 1), Add(One, returns[k]))

\* pow(1 + totalReturn, 1 / (length / tradingDays)) - 1
\* Math.pow(base, exponent) - 1
PowMinusOne(base, exponent) ==
  IF PowIsExact(base, exponent)
  THEN Sub(MathPow(base, exponent), One)
  ELSE [pow |-> base, exp |-> exponent, minus |-> One]

\* totalReturn = reduce(...) - 1; periods = length / tradingDays;
\* pow(1 + totalReturn, 1 / periods) - 1
calculateAnnualizedReturn(returns, tradingDays) ==
  PowMinusOne(Add(One, Sub(CompoundFrom(returns, Len(returns)), One)),
              Div(One, Div(Num(Len(returns)), Num(tradingDays))))

(***************************************************************************)
(* Maximum drawdown                                                        *)
(***************************************************************************)
MaxDrawdownStep_StalePeak(prices, i, st) ==
  LET p == At(prices, i)
      drawdown == Div(Sub(st.peak, p), st.peak)
      deeper == Gt(drawdown, st.maxDrawdown)
  IN [maxDrawdown |-> IF deeper THEN drawdown ELSE st.maxDrawdown,
      peak |-> st.peak,
      peakIndex |-> st.peakIndex,
      troughIndex |-> IF deeper THEN i ELSE st.troughIndex]

MaxDrawdownStep_RiseAsDrawdown(prices, i, st) ==
  LET p == At(prices, i)
      higher == Gt(p, st.peak)
      drawdown == Div(Sub(p, st.peak), st.peak)
      deeper == Gt(drawdown, st.maxDrawdown)
  IN [maxDrawdown |-> IF deeper THEN drawdown ELSE st.maxDrawdown,
      peak |-> IF higher THEN p ELSE st.peak,
      peakIndex |-> IF higher THEN i ELSE st.peakIndex,
      troughIndex |-> IF deeper THEN i ELSE st.troughIndex]

\* one iteration of the scan: raise the running peak, then record a deeper
\* drawdown together with the index it was seen at
MaxDrawdownStep(prices, i, st) ==
  LET p == At(prices, i)
      higher == Gt(p, st.peak)
      peak == IF higher THEN p ELSE st.peak
      drawdown == Div(Sub(peak, p), peak)
      deeper == Gt(drawdown, st.maxDrawdown)
  IN [maxDrawdown |-> IF deeper THEN drawdown ELSE st.maxDrawdown,
      peak |-> peak,
      peakIndex |-> IF higher THEN i ELSE st.peakIndex,
      troughIndex |-> IF deeper THEN i ELSE st.troughIndex]

RECURSIVE MaxDrawdownLoop(_, _, _)
MaxDrawdownLoop(prices, i, st) ==
  IF i >= Len(prices) THEN st
  ELSE MaxDrawdownLoop(prices, i + 1, MaxDrawdownStep(prices, i, st))

\* return { maxDrawdown, peakIndex, troughIndex }
DrawdownResult(st) ==
  [maxDrawdown |-> st.maxDrawdown,
   peakIndex |-> st.peakIndex,
   troughIndex |-> st.troughIndex]

calculateMaxDrawdown(prices) ==
  DrawdownResult(MaxDrawdownLoop(prices, 1,
                   [maxDrawdown |-> Zero, peak |-> At(prices, 0),
                    peakIndex |-> 0, troughIndex |-> 0]))

(***************************************************************************)
(* simple-statistics primitives used by the engine (require at line 1)     *)
(***************************************************************************)
\* if (Math.abs(sum) >= Math.abs(x[i])) correction += sum - transition + x[i];
\* else correction += x[i] - transition + sum
KahanStep(xi, st, transition) ==
  [i |-> st.i + 1,
   sum |-> transition,
   correction |-> Add(st.correction,
                      IF Ge(MathAbs(st.sum), MathAbs(xi))
                      THEN Add(Sub(st.sum, transition), xi)
                      ELSE Add(Sub(xi, transition), st.sum))]

RECURSIVE KahanLoop(_, _)
\* for (i = 1; i < x.length; i++): transition = sum + x[i]; the rounding
\* error of that addition goes to correction; sum = transition
\* (the loop from its state st: the index, the sum and the correction)
KahanLoop(arr, st) ==
  IF st.i >= Len(arr) THEN Add(st.sum, st.correction)
  ELSE KahanLoop(arr, KahanStep(At(arr, st.i), st, Add(st.sum, At(arr, st.i))))

\* ss.sum: 0 for an empty array, otherwise the Kahan-Babuska compensated sum
ssSum(a) ==
  IF Len(a) = 0 THEN Zero
  ELSE KahanLoop(a, [i |-> 1, sum |-> At(a, 0), correction |-> Zero])

\* ss.mean: throws on an empty array, otherwise ss.sum / length
ssMean(a) ==
  IF Len(a) = 0 THEN Throw("mean requires at least one data point")
  ELSE Ok(Div(ssSum(a), Num(Len(a))))

\* sum of the squared deviations from the mean of a non-empty array
SquaredDeviationsFrom(a, m) ==
  Sum([k \in 1..Len(a) |-> Mul(Sub(a[k], m), Sub(a[k], m))])

SumSquaredDeviations(a) == SquaredDeviationsFrom(a, ssMean(a).v)

\* ss.variance: the population variance (divides by n); throws on empty
ssVariance(a) ==
  IF Len(a) = 0 THEN Throw("variance requires at least one data point")
  ELSE Ok(Div(SumSquaredDeviations(a), Num(Len(a))))

\* ss.sampleVariance: divides by n - 1; throws below two points
ssSampleVariance(a) ==
  IF Len(a) < 2 THEN Throw("sampleVariance requires at least two data points")
  ELSE Ok(Div(SumSquaredDeviations(a), Num(Len(a) - 1)))

\* ss.sampleCovariance: throws on unequal lengths and below two points
ssSampleCovariance(a, b) ==
  IF Len(a) # Len(b)
  THEN Throw("sampleCovariance requires samples with equal lengths")
  ELSE IF Len(a) < 2
  THEN Throw("sampleCovariance requires at least two data points in each sample")
  ELSE LET ma == ssMean(a).v
           mb == ssMean(b).v
       IN Ok(Div(Sum([k \in 1..Len(a) |-> Mul(Sub(a[k], ma), Sub(b[k], mb))]),
                 Num(Len(a) - 1)))

\* the real number c / sqrt(va) / sqrt(vb) for finite c and va, vb >= 0:
\* NaN when a root is 0 (c is then 0 too, and 0 / 0 is NaN), otherwise the
\* number sgn * sqrt(sq), kept as its sign and its square
QuotientByRoots(c, va, vb) ==
  IF IsNaN(c) \/ IsNaN(va) \/ IsNaN(vb) THEN NaN
  ELSE IF IsZero(va) \/ IsZero(vb) THEN (IF IsZero(c) THEN NaN ELSE <<SignOf(c), 0>>)
  ELSE [sgn |-> SignOf(c), sq |-> Div(Mul(c, c), Mul(va, vb))]

\* ss.sampleCorrelation: cov / sampleStandardDeviation(x) / sampleStandardDeviation(y)
\* cov / sqrt(va) / sqrt(vb), unless the covariance threw
CorrelationOf(cov, va, vb) ==
  IF cov.t = "throw" THEN cov ELSE Ok(QuotientByRoots(cov.v, va.v, vb.v))

ssSampleCorrelation(a, b) ==
  CorrelationOf(ssSampleCovariance(a, b), ssSampleVariance(a), ssSampleVariance(b))

\* Math.sqrt(q) of a number q: NaN below 0, exact at 0 and Infinity,
\* otherwise the real number sqrt(q), kept as the record [sqrt |-> q]
MathSqrt(q) ==
  IF IsNaN(q) \/ Lt(q, Zero) THEN NaN
  ELSE IF IsZero(q) THEN q
  ELSE IF q = PosInf THEN PosInf
  ELSE IF IsDouble(q) THEN D_Sqrt(q)
  ELSE [sqrt |-> q]

\* r * Math.sqrt(c) for a root r returned by MathSqrt and c > 0
TimesSqrt(r, c) ==
  IF IsZero(r) \/ NaN = r \/ PosInf = r THEN r
  ELSE IF DOMAIN r = {"sqrt"} THEN [sqrt |-> Mul(r.sqrt, c)]
  ELSE Mul(r, D_Sqrt(ToDouble(c)))

\* ss.standardDeviation: 0 for a single point, otherwise the root of the
\* population variance (which throws on an empty array)
RootOf(v) == IF v.t = "throw" THEN v ELSE Ok(MathSqrt(v.v))

ssStandardDeviation(a) ==
  IF Len(a) = 1 THEN Ok(Zero) ELSE RootOf(ssVariance(a))

(***************************************************************************)
(* Volatility                                                              *)
(***************************************************************************)
\* ss.standardDeviation(returns) * Math.sqrt(tradingDays)
Annualized(stdDev, tradingDays) ==
  IF stdDev.t = "throw" THEN stdDev
  ELSE Ok(TimesSqrt(stdDev.v, Num(tradingDays)))

calculateVolatility(returns, tradingDays) ==
  Annualized(ssStandardDeviation(returns), tradingDays)

(***************************************************************************)
(* Sharpe and Sortino ratios                                               *)
(***************************************************************************)
\* whether calculateAnnualizedReturn(returns, tradingDays) is a Number of the
\* model: Math.pow is exact there, and not kept as a symbolic power
AnnualizedReturnIsExact(returns, tradingDays) ==
  PowIsExact(Add(One, Sub(CompoundFrom(returns, Len(returns)), One)),
             Div(One, Div(Num(Len(returns)), Num(tradingDays))))

\* n / deviation for a Number n and a deviation that is a root > 0 or Infinity
QuotientByDeviation(n, deviation) ==
  IF PosInf = deviation THEN Div(n, PosInf)
  ELSE IF ~IsFinite(n) \/ IsZero(n) THEN n
  ELSE [quotient |-> <<n, deviation>>]

\* (annualizedReturn - riskFreeRate) / deviation for a deviation that is not
\* 0: NaN when either is NaN, an infinity when the return is one, otherwise
\* a real number, kept as a record of one field, [quotient |-> ...] or
\* [ratio |-> ...] (it is 0 only when the annualized return is the risk-free
\* rate)
ExcessOver(annualizedReturn, exact, riskFreeRate, deviation) ==
  IF NaN = deviation THEN NaN
  ELSE IF ~exact
  THEN [ratio |-> <<annualizedReturn, riskFreeRate, deviation>>]
  ELSE QuotientByDeviation(Sub(annualizedReturn, riskFreeRate), deviation)

\* if (annualizedVol === 0) return 0;
\* return (annualizedReturn - riskFreeRate) / annualizedVol
SharpeOf(annualizedReturn, exact, riskFreeRate, annualizedVol) ==
  IF annualizedVol.t = "throw" THEN annualizedVol
  ELSE IF IsZero(annualizedVol.v) THEN Ok(Zero)
  ELSE Ok(ExcessOver(annualizedReturn, exact, riskFreeRate, annualizedVol.v))

calculateSharpeRatio(returns, riskFreeRate, tradingDays) ==
  SharpeOf(calculateAnnualizedReturn(returns, tradingDays),
           AnnualizedReturnIsExact(returns, tradingDays),
           riskFreeRate,
           calculateVolatility(returns, tradingDays))

\* Math.pow(d, 2)
Squared(d) == Mul(d, d)

\* returns.filter(r => r < dailyRiskFree).map(r => Math.pow(r - dailyRiskFree, 2))
DownsideReturns(returns, dailyRiskFree) ==
  LET below == SelectSeq(returns, LAMBDA r : Lt(r, dailyRiskFree))
  IN [k \in 1..Len(below) |-> Squared(Sub(below[k], dailyRiskFree))]

\* if (downsideDeviation === 0) return Infinity;
\* return (annualizedReturn - riskFreeRate) / downsideDeviation
SortinoOver(annualizedReturn, exact, riskFreeRate, downsideDeviation) ==
  IF IsZero(downsideDeviation) THEN Ok(PosInf)
  ELSE Ok(ExcessOver(annualizedReturn, exact, riskFreeRate, downsideDeviation))

\* if (downsideReturns.length === 0) return Infinity;
\* downsideDeviation = Math.sqrt(ss.mean(downsideReturns)) * Math.sqrt(tradingDays)
SortinoOf(annualizedReturn, exact, riskFreeRate, downsideReturns, tradingDays) ==
  IF Len(downsideReturns) = 0 THEN Ok(PosInf)
  ELSE SortinoOver(annualizedReturn, exact, riskFreeRate,
                   TimesSqrt(MathSqrt(ssMean(downsideReturns).v),
                             Num(tradingDays)))

calculateSortinoRatio(returns, riskFreeRate, tradingDays) ==
  SortinoOf(calculateAnnualizedReturn(returns, tradingDays),
            AnnualizedReturnIsExact(returns, tradingDays),
            riskFreeRate,
            DownsideReturns(returns, Div(riskFreeRate, Num(tradingDays))),
            tradingDays)

(***************************************************************************)
(* Two-series statistics                                                   *)
(***************************************************************************)
\* sum of (x[i] - meanX) * (y[i] - meanY) over the indices of x, / (n - 1)
CovarianceAbout(a, b, meanX, meanY) ==
  IF meanX.t = "throw" THEN meanX
  ELSE IF meanY.t = "throw" THEN meanY
  ELSE Ok(Div(Sum([k \in 1..Len(a) |->
                     Mul(Sub(At(a, k - 1), meanX.v), Sub(At(b, k - 1), meanY.v))]),
              Num(Len(a) - 1)))

calculateCovariance(a, b) == CovarianceAbout(a, b, ssMean(a), ssMean(b))

Min(i, j) == IF i < j THEN i ELSE j

\* both series cut to the shorter length, then covariance / ss.variance,
\* and 0 when the benchmark variance is 0
\* if (benchmarkVariance === 0) return 0; return covariance / benchmarkVariance
BetaOf(covariance, benchmarkVariance) ==
  IF covariance.t = "throw" THEN covariance
  ELSE IF benchmarkVariance.t = "throw" THEN benchmarkVariance
  ELSE IF IsZero(benchmarkVariance.v) THEN Ok(Zero)
  ELSE Ok(Div(covariance.v, benchmarkVariance.v))

BetaOfSlices(asset, benchmark) ==
  BetaOf(calculateCovariance(asset, benchmark), ssVariance(benchmark))

\* minLength = Math.min(assetReturns.length, benchmarkReturns.length)
MinLength(assetReturns, benchmarkReturns) ==
  Min(Len(assetReturns), Len(benchmarkReturns))

calculateBeta(assetReturns, benchmarkReturns) ==
  BetaOfSlices(Sliced(assetReturns, 0,
                      MinLength(assetReturns, benchmarkReturns)).slice,
               Sliced(benchmarkReturns, 0,
                      MinLength(assetReturns, benchmarkReturns)).slice)

calculateCorrelation_PopulationDeviation(a, b) ==
  CorrelationOf(ssSampleCovariance(a, b), ssVariance(a), ssVariance(b))

\* return ss.sampleCorrelation(x, y)
calculateCorrelation(a, b) == ssSampleCorrelation(a, b)

(***************************************************************************)
(* Moving averages and Bollinger bands                                     *)
(***************************************************************************)
\* number of iterations of for (i = period - 1; i < prices.length; i++)
WindowCount(prices, p) ==
  IF Len(prices) - p + 1 > 0 THEN Len(prices) - p + 1 ELSE 0

\* prices.slice(i - period + 1, i + 1) of iteration k = 1, 2, ... where
\* i = period - 1 + (k - 1)
Window(prices, p, k) == Slice(prices, k - 1, p + k - 1)

calculateSMA_WindowFromNext(prices, p) ==
  [k \in 1..WindowCount(prices, p) |->
     Div(Sum(Window(prices, p, k + 1)), Num(p))]

\* each window's sum / period
calculateSMA(prices, p) ==
  [k \in 1..WindowCount(prices, p) |-> Div(Sum(Window(prices, p, k)), Num(p))]

RECURSIVE SeedSum(_, _, _)
\* for (i = 0; i < period; i++) sum += prices[i], a missing element adding
\* NaN; st is the index reached and the sum
SeedSum(prices, n, st) ==
  IF st.i >= n THEN st.sum
  ELSE SeedSum(prices, n, [i |-> st.i + 1, sum |-> Add(st.sum, At(prices, st.i))])

\* (prices[i] - last) * multiplier + last
NewEma(price, last, multiplier) == Add(Mul(Sub(price, last), multiplier), last)

RECURSIVE EmaLoop(_, _, _)
\* for (i = period; i < prices.length; i++) push the new value; st is the
\* index reached and the array so far
EmaLoop(prices, st, multiplier) ==
  IF st.i >= Len(prices) THEN st.ema
  ELSE EmaLoop(prices,
               [i |-> st.i + 1,
                ema |-> Append(st.ema,
                               NewEma(At(prices, st.i), st.ema[Len(st.ema)],
                                      multiplier))],
               multiplier)

\* ema.push(sum / period) on the empty array
Seeded(prices, p) ==
  [i |-> p, ema |-> <<Div(SeedSum(prices, p, [i |-> 0, sum |-> Zero]), Num(p))>>]

calculateEMA_MultiplierOverPeriod(prices, p) ==
  EmaLoop(prices, Seeded(prices, p), Div(Literal(prices, 2), Num(p)))

\* seed = sum of the first period prices / period, then the recurrence with
\* multiplier = 2 / (period + 1)
calculateEMA(prices, p) ==
  EmaLoop(prices, Seeded(prices, p), Div(Literal(prices, 2), Num(p + 1)))

\* change = prices[i] - prices[i - 1]; gains.push(change > 0 ? change : 0)
GainOf(change) == IF Gt(change, Zero) THEN change ELSE Zero

\* losses.push(change < 0 ? Math.abs(change) : 0)
LossOf(change) == IF Lt(change, Zero) THEN MathAbs(change) ELSE Zero

\* for (i = 1; i < prices.length; i++): the change of step i
Changes(prices) ==
  [k \in 1..(IF Len(prices) = 0 THEN 0 ELSE Len(prices) - 1) |->
     Sub(At(prices, k), At(prices, k - 1))]

Gains(prices) == [k \in 1..Len(Changes(prices)) |-> GainOf(Changes(prices)[k])]

Losses(prices) == [k \in 1..Len(Changes(prices)) |-> LossOf(Changes(prices)[k])]

\* (avg * (period - 1) + v) / period
Smoothed(avg, p, v) == Div(Add(Mul(avg, Num(p - 1)), v), Num(p))

RsiValue_NoGuard(avgGain, avgLoss) ==
  Sub(Num(100), Div(Num(100), Add(One, Div(avgGain, avgLoss))))

\* if (avgLoss === 0) 100, else 100 - (100 / (1 + avgGain / avgLoss))
RsiValue(avgGain, avgLoss) ==
  IF IsZero(avgLoss) THEN Num(100)
  ELSE Sub(Num(100), Div(Num(100), Add(One, Div(avgGain, avgLoss))))

\* the state after step i: the averages smoothed at that step and the value
\* pushed from them
RsiPush(i, avgGain, avgLoss, rsi) ==
  [i |-> i + 1, avgGain |-> avgGain, avgLoss |-> avgLoss,
   rsi |-> Append(rsi, RsiValue(avgGain, avgLoss))]

RECURSIVE RsiLoop(_, _, _, _)
\* for (i = period; i < gains.length; i++): smooth both averages, push
RsiLoop(gains, losses, p, st) ==
  IF st.i >= Len(gains) THEN st.rsi
  ELSE RsiLoop(gains, losses, p,
               RsiPush(st.i,
                       Smoothed(st.avgGain, p, At(gains, st.i)),
                       Smoothed(st.avgLoss, p, At(losses, st.i)), st.rsi))

\* gains.slice(0, period).reduce((a, b) => a + b, 0) / period
InitialAverage(changes, p) == Div(Sum(Slice(changes, 0, p)), Num(p))

calculateRSI(prices, p) ==
  RsiLoop(Gains(prices), Losses(prices), p,
          [i |-> p,
           avgGain |-> InitialAverage(Gains(prices), p),
           avgLoss |-> InitialAverage(Losses(prices), p),
           rsi |-> <<>>])

MacdLine_Unaligned(fastEMA, slowEMA, offset) ==
  [k \in 1..Len(slowEMA) |-> Sub(At(fastEMA, k - 1), At(slowEMA, k - 1))]

\* for (i = 0; i < slowEMA.length; i++) push(fastEMA[i + offset] - slowEMA[i])
MacdLine(fastEMA, slowEMA, offset) ==
  [k \in 1..Len(slowEMA) |-> Sub(At(fastEMA, k - 1 + offset), At(slowEMA, k - 1))]

\* for (i = 0; i < signalLine.length; i++)
\*   push(macdLine[i + histogramOffset] - signalLine[i])
Histogram(macdLine, signalLine, histogramOffset) ==
  [k \in 1..Len(signalLine) |->
     Sub(At(macdLine, k - 1 + histogramOffset), At(signalLine, k - 1))]

\* the three series once macdLine is known
MacdOf(macdLine, signal) ==
  [macdLine |-> macdLine,
   signalLine |-> calculateEMA(macdLine, signal),
   histogram |-> Histogram(macdLine, calculateEMA(macdLine, signal), signal - 1)]

calculateMACD(prices, fast, slow, signal) ==
  MacdOf(MacdLine(calculateEMA(prices, fast), calculateEMA(prices, slow),
                  slow - fast),
         signal)

PlusDeviations_Opposite(base, coef, r) ==
  IF IsNaN(base) \/ NaN = r THEN NaN
  ELSE IF IsZero(r) \/ coef = 0 THEN base
  ELSE IF DOMAIN r = {"sqrt"} THEN [base |-> base, coef |-> -coef, rad |-> r.sqrt]
  ELSE Sub(base, Mul(Num(coef), r))

\* base + coef * r for a deviation r returned by ssStandardDeviation: the
\* number itself when r is 0, otherwise the real number base + coef * sqrt(rad)
PlusDeviations(base, coef, r) ==
  IF IsNaN(base) \/ NaN = r THEN NaN
  ELSE IF IsZero(r) \/ coef = 0 THEN base
  ELSE IF DOMAIN r = {"sqrt"} THEN [base |-> base, coef |-> coef, rad |-> r.sqrt]
  ELSE Add(base, Mul(Num(coef), r))

\* middle = SMA; for each window, middle +/- multiplier * ss.standardDeviation
\* of the window, which throws on an empty window
calculateBollingerBands(prices, p, stdDevMultiplier) ==
  LET middle == calculateSMA(prices, p)
      n == WindowCount(prices, p)
      dev == [k \in 1..n |-> ssStandardDeviation(Window(prices, p, k))]
  IN IF \E k \in 1..n : dev[k].t = "throw"
     THEN dev[CHOOSE k \in 1..n : dev[k].t = "throw" /\ \A j \in 1..(k - 1) : dev[j].t = "ok"]
     ELSE Ok([upper |-> [k \in 1..n |->
                           PlusDeviations(At(middle, k - 1), stdDevMultiplier, dev[k].v)],
              middle |-> middle,
              lower |-> [k \in 1..n |->
                           PlusDeviations(At(middle, k - 1), -stdDevMultiplier, dev[k].v)]])

(***************************************************************************)
(* Value at risk                                                           *)
(***************************************************************************)
RECURSIVE InsertAscending(_, _)
InsertAscending(sorted, v) ==
  IF sorted = <<>> THEN <<v>>
  ELSE IF Lt(v, Head(sorted)) THEN <<v>> \o sorted
  ELSE <<Head(sorted)>> \o InsertAscending(Tail(sorted), v)

RECURSIVE SortAscending(_)
\* [...returns].sort((a, b) => a - b) of finite numbers
SortAscending(arr) ==
  IF arr = <<>> THEN <<>>
  ELSE InsertAscending(SortAscending(Tail(arr)), Head(arr))

\* Math.floor of a finite number (NaN and the infinities are returned as is)
MathFloor(q) ==
  IF ~IsFinite(q) THEN q
  ELSE IF ~IsDouble(q) THEN Num(q[1] \div q[2])
  ELSE IF q[1] = 0 THEN Zero
  ELSE LET whole == IF q[3] >= 0 THEN ShiftLeftBits(q[2], q[3])
                    ELSE ShiftRightBits(q[2], -q[3])
           below == q[1] < 0 /\ q[3] < 0
       IN Num(q[1] * IntOf(whole) - (IF below THEN 1 ELSE 0))

\* Math.floor((1 - confidenceLevel) * sortedReturns.length)
CutoffIndex(returns, confidenceLevel) ==
  MathFloor(Mul(Sub(One, confidenceLevel), Num(Len(returns))))

\* arr[q] for a Number q: undefined (NaN) unless q is an index of arr
AtNumber(arr, q) ==
  IF IsFinite(q) /\ ~IsDouble(q) /\ q[2] = 1 THEN At(arr, q[1]) ELSE NaN

SortedCopy_InPlace(returns) ==
  [sortedReturns |-> SortAscending(returns), returns |-> SortAscending(returns)]

\* [...returns].sort((a, b) => a - b): the spread copies the array and the
\* copy is sorted; returns is the argument as the call leaves it
SortedCopy(returns) ==
  [sortedReturns |-> SortAscending(returns), returns |-> returns]

calculateVaR_Descending(returns, confidenceLevel) ==
  Neg(At(SortAscending(returns),
         Len(returns) - 1 - CutoffIndex(returns, confidenceLevel)[1]))

\* the negated element at the cutoff index of the returns sorted ascending
calculateVaR(returns, confidenceLevel) ==
  Neg(AtNumber(SortedCopy(returns).sortedReturns,
               CutoffIndex(returns, confidenceLevel)))

\* the negated ss.mean of sortedReturns.slice(0, cutoffIndex + 1)
Negated(m) == IF m.t = "throw" THEN m ELSE Ok(Neg(m.v))

calculateCVaR(returns, confidenceLevel) ==
  Negated(ssMean(Slice(SortedCopy(returns).sortedReturns, 0,
                       CutoffIndex(returns, confidenceLevel)[1] + 1)))

(***************************************************************************)
(* Statistics summary                                                      *)
(***************************************************************************)
\* ss.sampleSkewness: throws below three points, otherwise a real number
\* computed from a cube of a square root, kept as a record naming the sample
ssSampleSkewness(a) ==
  IF Len(a) < 3
  THEN Throw("sampleSkewness requires at least three data points")
  ELSE Ok([skewness |-> a])

\* ss.sampleKurtosis: throws below four points, otherwise kept as a record
\* naming the sample
ssSampleKurtosis(a) ==
  IF Len(a) < 4
  THEN Throw("sampleKurtosis requires at least four data points")
  ELSE Ok([kurtosis |-> a])

\* ss.median: throws on an empty array, otherwise the middle of the sorted
\* copy (the mean of the two middle values for an even length)
ssMedian(a) ==
  IF Len(a) = 0 THEN Throw("quantile requires at least one data point.")
  ELSE IF Len(a) % 2 = 1 THEN Ok(At(SortAscending(a), Len(a) \div 2))
  ELSE Ok(Div(Add(At(SortAscending(a), Len(a) \div 2 - 1),
                  At(SortAscending(a), Len(a) \div 2)),
              Num(2)))

\* ss.min and ss.max: throw on an empty array
ssMin(a) ==
  IF Len(a) = 0 THEN Throw("min requires at least one data point")
  ELSE Ok(At(SortAscending(a), 0))

ssMax(a) ==
  IF Len(a) = 0 THEN Throw("max requires at least one data point")
  ELSE Ok(At(SortAscending(a), Len(a) - 1))

\* assetAnnualized - (riskFreeRate + beta * (benchmarkAnnualized - riskFreeRate)),
\* a real number built on fractional powers, kept as a record of its terms
AlphaOf(assetAnnualized, benchmarkAnnualized, beta, riskFreeRate) ==
  IF beta.t = "throw" THEN beta
  ELSE Ok([alpha |-> <<assetAnnualized, benchmarkAnnualized, beta.v, riskFreeRate>>])

calculateAlpha(assetReturns, benchmarkReturns, riskFreeRate, tradingDays) ==
  AlphaOf(calculateAnnualizedReturn(assetReturns, tradingDays),
          calculateAnnualizedReturn(benchmarkReturns, tradingDays),
          calculateBeta(assetReturns, benchmarkReturns),
          riskFreeRate)

\* the keys of the summary literal, in the order their values are computed
SummaryKeys ==
  <<"totalReturn", "annualizedReturn", "volatility", "sharpeRatio",
    "sortinoRatio", "maxDrawdown", "var95", "cvar95", "skewness", "kurtosis",
    "mean", "median", "standardDeviation", "min", "max">>

BenchmarkKeys == <<"beta", "alpha", "correlation">>

\* the outcome of each value of the summary literal, in order, given the
\* annualized return and the volatility that the ratios compute again
SummaryValues(prices, returns, annualizedReturn, exact, volatility, riskFreeRate, confidenceLevel) ==
  <<Ok(Sub(Div(At(prices, Len(prices) - 1), At(prices, 0)), One)),
    Ok(annualizedReturn),
    volatility,
    SharpeOf(annualizedReturn, exact, riskFreeRate, volatility),
    SortinoOf(annualizedReturn, exact, riskFreeRate,
              DownsideReturns(returns, Div(riskFreeRate, Num(DefaultTradingDays))),
              DefaultTradingDays),
    Ok(calculateMaxDrawdown(prices).maxDrawdown),
    Ok(calculateVaR(returns, confidenceLevel)),
    calculateCVaR(returns, confidenceLevel),
    ssSampleSkewness(returns),
    ssSampleKurtosis(returns),
    ssMean(returns),
    ssMedian(returns),
    ssStandardDeviation(returns),
    ssMin(returns),
    ssMax(returns)>>

\* beta, alpha and correlation against the benchmark's own returns, given
\* the beta that calculateAlpha computes again; nothing without a benchmark
BenchmarkValues(given, returns, benchmarkReturns, annualizedReturn, beta, riskFreeRate) ==
  IF ~given THEN <<>>
  ELSE <<beta,
         AlphaOf(annualizedReturn,
                 calculateAnnualizedReturn(benchmarkReturns, DefaultTradingDays),
                 beta, riskFreeRate),
         calculateCorrelation(returns, benchmarkReturns)>>

\* the object holding keys[k] |-> outcomes[k].v, unless an outcome is an
\* exception: the first one then ends the call
SummaryFrom(keys, outcomes) ==
  IF \E k \in 1..Len(outcomes) : outcomes[k].t = "throw"
  THEN outcomes[CHOOSE k \in 1..Len(outcomes) :
                  /\ outcomes[k].t = "throw"
                  /\ \A j \in 1..(k - 1) : outcomes[j].t = "ok"]
  ELSE Ok([key \in {keys[k] : k \in 1..Len(outcomes)} |->
             outcomes[CHOOSE k \in 1..Len(outcomes) : keys[k] = key].v])

\* the summary of the returns of prices and, with a benchmark, of its returns
SummaryOfReturns(prices, returns, given, benchmarkReturns, annualizedReturn, riskFreeRate, confidenceLevel) ==
  SummaryFrom(SummaryKeys \o BenchmarkKeys,
              SummaryValues(prices, returns, annualizedReturn,
                            AnnualizedReturnIsExact(returns, DefaultTradingDays),
                            calculateVolatility(returns, DefaultTradingDays),
                            riskFreeRate, confidenceLevel)
              \o BenchmarkValues(given, returns, benchmarkReturns,
                                 annualizedReturn,
                                 calculateBeta(returns, benchmarkReturns),
                                 riskFreeRate))

\* if (benchmarkPrices && benchmarkPrices.length > 0)
HasBenchmark(benchmark) == benchmark.given /\ Len(benchmark.array) > 0

\* the summary literal, then beta, alpha and correlation with a benchmark
generateStatsSummary(prices, benchmark, riskFreeRate, confidenceLevel) ==
  SummaryOfReturns(prices, calculateReturns(prices), HasBenchmark(benchmark),
                   calculateReturns(benchmark.array),
                   calculateAnnualizedReturn(calculateReturns(prices),
                                             DefaultTradingDays),
                   riskFreeRate, confidenceLevel)

(***************************************************************************)
(* Callers of the price functions                                          *)
(***************************************************************************)
SeqsUpTo(S, n) == UNION {[1..k -> S] : k \in 0..n}

ToNums(s) == [k \in 1..Len(s) |-> Num(s[k])]

\* the price array of the unit test 'should identify correct drawdown for
\* known case'
DrawdownFixture == ToNums(<<100, 120, 90, 80, 100>>)

PriceInputs ==
  {ToNums(s) : s \in SeqsUpTo(-1..MaxPrice, MaxLen)} \cup {DrawdownFixture}

InitPrices ==
  /\ x \in PriceInputs
  /\ y = <<>>
  /\ period = 0
  /\ conf = DefaultConfidenceLevel
  /\ mult = DefaultStdDevMultiplier
  /\ op = "none"
  /\ res = [t |-> "none"]
  /\ EngineOnlyArgs
  /\ NoDocuments

CallReturns ==
  /\ op' = "calculateReturns"
  /\ res' = Ok(calculateReturns(x))
  /\ UNCHANGED <<x, y, period, conf, mult>>
  /\ UNCHANGED <<otherArgs, documents>>

CallLogReturns ==
  /\ op' = "calculateLogReturns"
  /\ res' = Ok(calculateLogReturns(x))
  /\ UNCHANGED <<x, y, period, conf, mult>>
  /\ UNCHANGED <<otherArgs, documents>>

CallMaxDrawdown ==
  /\ op' = "calculateMaxDrawdown"
  /\ res' = Ok(calculateMaxDrawdown(x))
  /\ UNCHANGED <<x, y, period, conf, mult>>
  /\ UNCHANGED <<otherArgs, documents>>

NextPrices == CallReturns \/ CallLogReturns \/ CallMaxDrawdown

SpecPrices == InitPrices /\ [][NextPrices]_vars

(***************************************************************************)
(* Properties of the price functions                                       *)
(***************************************************************************)
AllPositive(prices) == \A k \in 1..Len(prices) : Gt(prices[k], Zero)

AllNonZero(prices) == \A k \in 1..Len(prices) : IsFinite(prices[k]) /\ prices[k] # Zero

\* the greatest of a non-empty finite set of finite numbers
MaxOf(S) == CHOOSE m \in S : \A s \in S : Le(s, m)

\* max over i <= j of (prices[i] - prices[j]) / prices[i]
ReferenceDrawdown(prices) ==
  MaxOf({Div(Sub(prices[ij[1]], prices[ij[2]]), prices[ij[1]]) :
           ij \in {p \in (1..Len(prices)) \X (1..Len(prices)) : p[1] <= p[2]}})

\* C1: for positive prices with a maximum drawdown > 0, calculateMaxDrawdown
\* returns a peak index before the trough index, and the drawdown from the
\* price at peakIndex to the price at troughIndex is the returned maximum
C1_PeakIsPeakOfMaximum ==
  (op = "calculateMaxDrawdown" /\ AllPositive(x) /\ Gt(res.v.maxDrawdown, Zero))
    => /\ res.v.peakIndex < res.v.troughIndex
       /\ Div(Sub(At(x, res.v.peakIndex), At(x, res.v.troughIndex)),
              At(x, res.v.peakIndex)) = res.v.maxDrawdown

\* C2: for positive prices of length >= 1 the returned maxDrawdown is the
\* maximum over all index pairs i <= j of (prices[i] - prices[j]) / prices[i],
\* it lies in [0, 1], and it is 1/3 for [100, 120, 90, 80, 100]
C2_MaxDrawdownIsReference ==
  (op = "calculateMaxDrawdown" /\ Len(x) >= 1 /\ AllPositive(x))
    => /\ res.v.maxDrawdown = ReferenceDrawdown(x)
       /\ Ge(res.v.maxDrawdown, Zero)
       /\ Le(res.v.maxDrawdown, One)
       /\ (x = DrawdownFixture => res.v.maxDrawdown = <<1, 3>>)

C2_Witness ==
  /\ op = "calculateMaxDrawdown"
  /\ x = DrawdownFixture
  /\ res.v.maxDrawdown = <<1, 3>>

\* C9: for n >= 2 non-zero prices calculateReturns yields n-1 values with
\* (1 + returns[i]) * prices[i] = prices[i+1] for every i in [0, n-2]
C9_ReturnsRebuildPrices ==
  (op = "calculateReturns" /\ Len(x) >= 2 /\ AllNonZero(x))
    => /\ Len(res.v) = Len(x) - 1
       /\ \A i \in 0..(Len(x) - 2) :
            /\ Mul(Add(One, At(res.v, i)), At(x, i)) = At(x, i + 1)
            /\ At(res.v, i) = Div(Sub(At(x, i + 1), At(x, i)), At(x, i))

C9_Witness ==
  /\ op = "calculateReturns"
  /\ Len(x) >= 3
  /\ AllNonZero(x)
  /\ Len(res.v) = Len(x) - 1
  /\ At(res.v, 0) # Zero
  /\ At(res.v, 1) # At(res.v, 0)

\* C10: calculateReturns and calculateLogReturns of an empty or
\* single-element price array return an empty array and throw nothing
C10_ShortSeriesGiveEmptyReturns ==
  (op \in {"calculateReturns", "calculateLogReturns"} /\ Len(x) <= 1)
    => res.t = "ok" /\ res.v = <<>>

C10_Witness ==
  /\ op = "calculateLogReturns"
  /\ Len(x) = 1
  /\ res.t = "ok"
  /\ res.v = <<>>

StrictlyIncreasing(prices) ==
  \A k \in 1..(Len(prices) - 1) : Lt(prices[k], prices[k + 1])

\* C13: for every price series with strictly increasing values
\* calculateMaxDrawdown returns maxDrawdown exactly 0
C13_IncreasingPricesHaveNoDrawdown ==
  (op = "calculateMaxDrawdown" /\ StrictlyIncreasing(x))
    => Zero = res.v.maxDrawdown

C13_Witness ==
  /\ op = "calculateMaxDrawdown"
  /\ Len(x) >= 3
  /\ StrictlyIncreasing(x)
  /\ Lt(At(x, 0), Zero)
  /\ Zero = res.v.maxDrawdown

(***************************************************************************)
(* Callers of the two-series functions                                     *)
(***************************************************************************)
\* the arrays of the unit tests 'should return 1 for identical arrays' and
\* 'should return -1 for perfectly negatively correlated'
CorrelationFixture == ToNums(<<1, 2, 3, 4, 5>>)

CorrelationFixtureReversed == ToNums(<<5, 4, 3, 2, 1>>)

PairInputs ==
  {ToNums(s) : s \in SeqsUpTo(-1..MaxPairVal, MaxPairLen)}
    \cup {CorrelationFixture, CorrelationFixtureReversed}

InitPair ==
  /\ x \in PairInputs
  /\ y \in PairInputs
  /\ period = 0
  /\ conf = DefaultConfidenceLevel
  /\ mult = DefaultStdDevMultiplier
  /\ op = "none"
  /\ res = [t |-> "none"]
  /\ EngineOnlyArgs
  /\ NoDocuments

CallBeta ==
  /\ op' = "calculateBeta"
  /\ res' = calculateBeta(x, y)
  /\ x' = Sliced(x, 0, MinLength(x, y)).array
  /\ y' = Sliced(y, 0, MinLength(x, y)).array
  /\ UNCHANGED <<period, conf, mult>>
  /\ UNCHANGED <<otherArgs, documents>>

CallCovariance ==
  /\ op' = "calculateCovariance"
  /\ res' = calculateCovariance(x, y)
  /\ UNCHANGED <<x, y, period, conf, mult>>
  /\ UNCHANGED <<otherArgs, documents>>

CallCorrelation ==
  /\ op' = "calculateCorrelation"
  /\ res' = calculateCorrelation(x, y)
  /\ UNCHANGED <<x, y, period, conf, mult>>
  /\ UNCHANGED <<otherArgs, documents>>

NextPair == CallBeta \/ CallCovariance \/ CallCorrelation

SpecPair == InitPair /\ [][NextPair]_vars

\* return series of -0.1 and 0.1 as the doubles the caller holds
DoublePairInputs ==
  {[k \in 1..Len(s) |-> Dec(s[k], 10)] : s \in SeqsUpTo({-1, 1}, MaxPairLen)}

InitBeta ==
  /\ x \in DoublePairInputs
  /\ y \in DoublePairInputs
  /\ period = 0
  /\ conf = DefaultConfidenceLevel
  /\ mult = DefaultStdDevMultiplier
  /\ op = "none"
  /\ res = [t |-> "none"]
  /\ EngineOnlyArgs
  /\ NoDocuments

NextBeta == CallBeta

SpecBeta == InitBeta /\ [][NextBeta]_vars

(***************************************************************************)
(* Properties of the two-series functions                                  *)
(***************************************************************************)
Truncated(a, b) == Slice(a, 0, Min(Len(a), Len(b)))

NonConstant(a) == \E k \in 1..Len(a) : a[k] # a[1]

\* b[k] = m * a[k] + c for all k, for a slope m < 0
DecreasingAffineImage(a, b) ==
  /\ Len(a) = Len(b)
  /\ \E m \in {-2, -1}, c \in -6..6 :
       \A k \in 1..Len(a) : b[k] = Add(Mul(Num(m), a[k]), Num(c))

\* both calls throw, or both return the same value
SameOutcome(r1, r2) == r1.t = r2.t /\ (r1.t = "ok" => r1.v = r2.v)

\* C3: given two series of unequal length, calculateBeta, calculateCovariance
\* and calculateCorrelation each return what they return on the first
\* min(len(x), len(y)) elements of each series
C3_UnequalLengthsAreTruncated ==
  (op \in {"calculateBeta", "calculateCovariance", "calculateCorrelation"}
     /\ Len(x) # Len(y))
    => SameOutcome(res,
             CASE op = "calculateBeta" ->
                     calculateBeta(Truncated(x, y), Truncated(y, x))
                [] op = "calculateCovariance" ->
                     calculateCovariance(Truncated(x, y), Truncated(y, x))
                [] op = "calculateCorrelation" ->
                     calculateCorrelation(Truncated(x, y), Truncated(y, x)))

\* C7: for x and y of equal length >= 2, calculateCorrelation returns a number
\* in [-1, 1], never NaN, also when x or y is constant
C7_CorrelationInUnitInterval ==
  (op = "calculateCorrelation" /\ Len(x) = Len(y) /\ Len(x) >= 2)
    => /\ res.t = "ok"
       /\ NaN # res.v
       /\ PosInf # res.v
       /\ NegInf # res.v
       /\ Le(res.v.sq, One)

\* C8: for a non-constant x of length >= 2, calculateCorrelation(x, x) is 1,
\* and calculateCorrelation(x, y) is -1 when y is a decreasing affine image
\* of x
C8_CorrelationOfAffineImages ==
  (op = "calculateCorrelation" /\ Len(x) >= 2 /\ NonConstant(x))
    => /\ (y = x => res = Ok([sgn |-> 1, sq |-> One]))
       /\ (DecreasingAffineImage(x, y) => res = Ok([sgn |-> -1, sq |-> One]))

C8_Witness ==
  /\ op = "calculateCorrelation"
  /\ x = CorrelationFixture
  /\ y = CorrelationFixtureReversed
  /\ res = Ok([sgn |-> -1, sq |-> One])

\* C16: calculateBeta returns exactly 0 (not NaN, an infinity or another
\* number) whenever the benchmark series, cut to the length of the shorter
\* series, is constant, so that its variance is 0
C16_ConstantBenchmarkGivesZeroBeta ==
  (op = "calculateBeta" /\ Len(x) >= 1 /\ Len(y) >= 1
     /\ ~NonConstant(Truncated(y, x)))
    => res.t = "ok" /\ IsZero(res.v)

\* C27: calculateBeta divides a covariance by a variance computed with the
\* same estimator, so the beta of a series against itself is 1: for every
\* non-constant return series x of length >= 2, calculateBeta(x, x) == 1
C27_BetaOfSeriesWithItselfIsOne ==
  (op = "calculateBeta" /\ y = x /\ Len(x) >= 2 /\ NonConstant(x))
    => res = Ok(One)

\* what the code returns instead on exact fractions: the sample covariance
\* over the population variance, n / (n - 1)
C27_BetaOfSeriesWithItselfIsRatioOfEstimators ==
  (op = "calculateBeta" /\ y = x /\ Len(x) >= 2 /\ NonConstant(x))
    => res = Ok(Div(Num(Len(x)), Num(Len(x) - 1)))

(***************************************************************************)
(* Callers of the return statistics                                        *)
(***************************************************************************)
\* a series that loses twice its value on the first of five days
LossFixture == ToNums(<<-2, 0, 0, 0, 0>>)

\* daily returns n/10 as exact fractions, the daily returns -0.1 and 0.1 as
\* the doubles the caller holds, and the loss fixture
ReturnInputs ==
  {[k \in 1..Len(s) |-> Norm(s[k], 10)] :
     s \in SeqsUpTo(-MaxRetNum..MaxRetNum, MaxRetLen)}
  \cup {[k \in 1..Len(s) |-> Dec(s[k], 10)] : s \in SeqsUpTo({-1, 1}, MaxRetLen)}
  \cup {LossFixture}

\* the riskFreeRate the caller passes: the default 0.02 next to double
\* returns, and 0 next to exact fractions (the squared shortfalls below
\* 0.02 / 252 do not fit the model checker's integers)
RiskFreeRateFor(returns) ==
  IF Len(returns) > 0 /\ IsDouble(returns[1]) THEN Dec(2, 100) ELSE Zero

InitStats ==
  /\ x \in ReturnInputs
  /\ y = <<>>
  /\ period = 0
  /\ conf = DefaultConfidenceLevel
  /\ mult = DefaultStdDevMultiplier
  /\ op = "none"
  /\ res = [t |-> "none"]
  /\ EngineOnlyArgs
  /\ NoDocuments

CallAnnualizedReturn ==
  /\ op' = "calculateAnnualizedReturn"
  /\ res' = Ok(calculateAnnualizedReturn(x, DefaultTradingDays))
  /\ UNCHANGED <<x, y, period, conf, mult>>
  /\ UNCHANGED <<otherArgs, documents>>

CallVolatility ==
  /\ op' = "calculateVolatility"
  /\ res' = calculateVolatility(x, DefaultTradingDays)
  /\ UNCHANGED <<x, y, period, conf, mult>>
  /\ UNCHANGED <<otherArgs, documents>>

CallSharpeRatio ==
  /\ op' = "calculateSharpeRatio"
  /\ res' = calculateSharpeRatio(x, RiskFreeRateFor(x), DefaultTradingDays)
  /\ UNCHANGED <<x, y, period, conf, mult>>
  /\ UNCHANGED <<otherArgs, documents>>

CallSortinoRatio ==
  /\ op' = "calculateSortinoRatio"
  /\ res' = calculateSortinoRatio(x, RiskFreeRateFor(x), DefaultTradingDays)
  /\ UNCHANGED <<x, y, period, conf, mult>>
  /\ UNCHANGED <<otherArgs, documents>>

NextStats ==
  \/ CallAnnualizedReturn
  \/ CallVolatility
  \/ CallSharpeRatio
  \/ CallSortinoRatio

SpecStats == InitStats /\ [][NextStats]_vars

(***************************************************************************)
(* Properties of the return statistics                                     *)
(***************************************************************************)
\* C4: calculateAnnualizedReturn of an empty return series throws an error
\* instead of returning NaN or any other number
C4_EmptyAnnualizedReturnThrows ==
  (op = "calculateAnnualizedReturn" /\ Len(x) = 0) => res.t = "throw"

\* C6: calculateVolatility of fewer than 2 returns throws an error instead of
\* returning a number
C6_ShortVolatilityThrows ==
  (op = "calculateVolatility" /\ Len(x) < 2) => res.t = "throw"

\* C14: calculateSharpeRatio returns exactly 0 whenever the annualized
\* volatility of the returns is 0, as it is for every constant return series
\* of length >= 2 (and for a single return); it does not return NaN, an
\* infinity or any other number then
C14_ZeroVolatilityGivesZeroSharpe ==
  (op = "calculateSharpeRatio" /\ Len(x) >= 1 /\ ~NonConstant(x))
    => res.t = "ok" /\ IsZero(res.v)

\* some return is strictly below riskFreeRate / tradingDays
HasDownside(returns) ==
  \E k \in 1..Len(returns) :
    Lt(returns[k], Div(RiskFreeRateFor(returns), Num(DefaultTradingDays)))

\* C15: calculateSortinoRatio returns +Infinity whenever no return is strictly
\* below riskFreeRate / tradingDays, and a finite number whenever at least
\* one return is strictly below that rate
C15_SortinoIsInfiniteOrFinite ==
  op = "calculateSortinoRatio"
    => /\ res.t = "ok"
       /\ ~HasDownside(x) => PosInf = res.v
       /\ HasDownside(x) => (NaN # res.v /\ PosInf # res.v /\ NegInf # res.v)

(***************************************************************************)
(* Callers of the windowed indicators                                      *)
(***************************************************************************)
\* the prices of the unit tests 'should calculate simple moving average
\* correctly' and 'should calculate exponential moving average'
SmaFixture == ToNums(<<10, 11, 12, 13, 14, 15>>)

\* the prices of the unit test 'should return values between 0 and 100'
RsiFixture ==
  [k \in 1..20 |->
     Dec(<<4400, 4434, 4409, 4361, 4433, 4483, 4510, 4542, 4584, 4608,
           4589, 4603, 4561, 4628, 4628, 4600, 4603, 4641, 4622, 4564>>[k],
         100)]

\* three prices 1 and a fourth one unit in the last place below
NearlyFlatFixture ==
  <<FromInt(1), FromInt(1), FromInt(1),
    D_Sub(FromInt(1), <<1, <<1>>, -Precision>>)>>

\* whole prices as exact fractions, the prices 0.1 and 0.2 as the doubles
\* the caller holds, and the fixtures
WindowInputs ==
  {ToNums(s) : s \in SeqsUpTo(0..MaxWinPrice, MaxWinLen)}
  \cup {[k \in 1..Len(s) |-> Dec(s[k], 10)] : s \in SeqsUpTo(1..2, MaxWinLen)}
  \cup {SmaFixture, NearlyFlatFixture}

InitWindow ==
  /\ x \in WindowInputs
  /\ y = <<>>
  /\ period \in -1..(MaxWinLen + 1)
  /\ conf = DefaultConfidenceLevel
  /\ mult \in (0..MaxMult) \cup {DefaultStdDevMultiplier}
  /\ op = "none"
  /\ res = [t |-> "none"]
  /\ EngineOnlyArgs
  /\ NoDocuments

CallSMA ==
  /\ op' = "calculateSMA"
  /\ res' = Ok(calculateSMA(x, period))
  /\ UNCHANGED <<x, y, period, conf, mult>>
  /\ UNCHANGED <<otherArgs, documents>>

CallEMA ==
  /\ op' = "calculateEMA"
  /\ res' = Ok(calculateEMA(x, period))
  /\ UNCHANGED <<x, y, period, conf, mult>>
  /\ UNCHANGED <<otherArgs, documents>>

CallBollingerBands ==
  /\ op' = "calculateBollingerBands"
  /\ res' = calculateBollingerBands(x, period, mult)
  /\ UNCHANGED <<x, y, period, conf, mult>>
  /\ UNCHANGED <<otherArgs, documents>>

NextWindow == CallSMA \/ CallEMA \/ CallBollingerBands

SpecWindow == InitWindow /\ [][NextWindow]_vars

(***************************************************************************)
(* Callers of the relative strength index                                  *)
(***************************************************************************)
\* the price arrays of the windowed indicators and the test's series, with
\* the periods below, around and above their lengths and the default one
RsiInputs == WindowInputs \cup {RsiFixture}

InitRsi ==
  /\ x \in RsiInputs
  /\ y = <<>>
  /\ period \in (-1..(MaxWinLen + 1)) \cup {DefaultRsiPeriod}
  /\ conf = DefaultConfidenceLevel
  /\ mult = DefaultStdDevMultiplier
  /\ op = "none"
  /\ res = [t |-> "none"]
  /\ EngineOnlyArgs
  /\ NoDocuments

CallRSI ==
  /\ op' = "calculateRSI"
  /\ res' = Ok(calculateRSI(x, period))
  /\ UNCHANGED <<x, y, period, conf, mult>>
  /\ UNCHANGED <<otherArgs, documents>>

NextRsi == CallRSI

SpecRsi == InitRsi /\ [][NextRsi]_vars

(***************************************************************************)
(* Properties of the windowed indicators                                   *)
(***************************************************************************)
\* C5: calculateSMA, calculateEMA and calculateBollingerBands called with
\* period > len(prices) or period < 1 throw an error; none returns an empty
\* array, an array holding NaN, or any other value
C5_BadPeriodThrows ==
  (op \in {"calculateSMA", "calculateEMA", "calculateBollingerBands"}
     /\ (period > Len(x) \/ period < 1))
    => res.t = "throw"

RECURSIVE SumRange(_, _, _)
\* prices[i] + ... + prices[i + n - 1], added from the left starting at 0
SumRange(prices, i, n) ==
  IF n = 0 THEN Zero ELSE Add(SumRange(prices, i, n - 1), At(prices, i + n - 1))

\* the arithmetic mean of prices[i .. i + n - 1]
MeanOfRange(prices, i, n) == Div(SumRange(prices, i, n), Num(n))

PeriodFits == period >= 1 /\ period <= Len(x)

\* C17: for 1 <= period <= len(prices), calculateSMA returns exactly
\* len(prices) - period + 1 values and value i is the arithmetic mean of
\* prices[i .. i+period-1]; prices [10,11,12,13,14,15] with period 3 give
\* [11,12,13,14]
C17_SmaIsMeanOfEachWindow ==
  (op = "calculateSMA" /\ PeriodFits)
    => /\ res.t = "ok"
       /\ Len(res.v) = Len(x) - period + 1
       /\ \A i \in 0..(Len(x) - period) :
            At(res.v, i) = MeanOfRange(x, i, period)
       /\ (x = SmaFixture /\ period = 3) => res.v = ToNums(<<11, 12, 13, 14>>)

C17_Witness ==
  /\ op = "calculateSMA"
  /\ x = SmaFixture
  /\ period = 3
  /\ res.v = ToNums(<<11, 12, 13, 14>>)

\* C18: for 1 <= period <= len(prices), calculateEMA returns exactly
\* len(prices) - period + 1 values, its first value equals
\* calculateSMA(prices, period)[0], and each later value j satisfies
\* ema[j] = (prices[period - 1 + j] - ema[j-1]) * 2/(period+1) + ema[j-1]
C18_EmaIsSeededRecurrence ==
  (op = "calculateEMA" /\ PeriodFits)
    => /\ res.t = "ok"
       /\ Len(res.v) = Len(x) - period + 1
       /\ At(res.v, 0) = At(calculateSMA(x, period), 0)
       /\ At(res.v, 0) = MeanOfRange(x, 0, period)
       /\ \A j \in 1..(Len(x) - period) :
            At(res.v, j) =
              Add(Mul(Sub(At(x, period - 1 + j), At(res.v, j - 1)),
                      Div(Literal(x, 2), Num(period + 1))),
                  At(res.v, j - 1))

C18_Witness ==
  /\ op = "calculateEMA"
  /\ x = SmaFixture
  /\ period = 3
  /\ Len(res.v) = 4
  /\ At(res.v, 0) = Num(11)
  /\ At(res.v, 3) = Num(14)

RECURSIVE SmoothedLossAt(_, _, _)
\* the average loss after the smoothing of step i >= period, from the plain
\* average of the first period losses
SmoothedLossAt(prices, p, i) ==
  IF i < p THEN InitialAverage(Losses(prices), p)
  ELSE Smoothed(SmoothedLossAt(prices, p, i - 1), p, At(Losses(prices), i))

IsHundred(v) == Le(v, Num(100)) /\ Ge(v, Num(100))

\* C19: for every price series and every period >= 1 with
\* len(prices) > period + 1, every value returned by calculateRSI lies in
\* [0, 100], and a value is exactly 100 whenever the smoothed average loss at
\* that step is exactly 0
C19_RsiWithinZeroAndHundred ==
  (op = "calculateRSI" /\ period >= 1 /\ Len(x) > period + 1)
    => /\ res.t = "ok"
       /\ Len(res.v) = Len(x) - 1 - period
       /\ \A k \in 1..Len(res.v) :
            /\ Ge(res.v[k], Zero)
            /\ Le(res.v[k], Num(100))
            /\ IsZero(SmoothedLossAt(x, period, period + k - 1))
                 => IsHundred(res.v[k])

\* the test's series: five values, the first 68.8011..., the last 60.1371...
C19_Witness ==
  /\ op = "calculateRSI"
  /\ x = RsiFixture
  /\ period = DefaultRsiPeriod
  /\ Len(res.v) = 5
  /\ \A k \in 1..5 : Gt(res.v[k], Zero) /\ Lt(res.v[k], Num(100))
  /\ Lt(Dec(688011, 10000), res.v[1]) /\ Lt(res.v[1], Dec(688012, 10000))
  /\ Lt(Dec(601371, 10000), res.v[5]) /\ Lt(res.v[5], Dec(601372, 10000))

\* 2^-52, the distance from 1 to the next double
Epsilon == <<1, <<1>>, 1 - Precision>>

InDoubles(prices) == Len(prices) > 0 /\ IsDouble(prices[1])

IsBand(b) == DOMAIN b = {"base", "coef", "rad"}

\* upper > middle, for a band that is a number or the real number
\* base + coef * sqrt(rad)
Above(b, m, dbl) ==
  IF dbl \/ ~IsBand(b) THEN Gt(b, m)
  ELSE b.base = m /\ b.coef > 0 /\ Gt(b.rad, Zero)

\* lower < middle
Below(b, m, dbl) ==
  IF dbl \/ ~IsBand(b) THEN Lt(b, m)
  ELSE b.base = m /\ b.coef < 0 /\ Gt(b.rad, Zero)

NotBelow(b, m, dbl) == IF dbl \/ ~IsBand(b) THEN Ge(b, m) ELSE Above(b, m, dbl)

NotAbove(b, m, dbl) == IF dbl \/ ~IsBand(b) THEN Le(b, m) ELSE Below(b, m, dbl)

BandsHaveLength(n) ==
  Len(res.v.upper) = n /\ Len(res.v.middle) = n /\ Len(res.v.lower) = n

BandsOrderedAt(k) ==
  /\ NotBelow(res.v.upper[k], res.v.middle[k], InDoubles(x))
  /\ NotAbove(res.v.lower[k], res.v.middle[k], InDoubles(x))

BandsStrictAt(k) ==
  /\ Above(res.v.upper[k], res.v.middle[k], InDoubles(x))
  /\ Below(res.v.lower[k], res.v.middle[k], InDoubles(x))

\* multiplier * deviation of window k is positive and at least 2^-52 times
\* the size of the middle value; always so for a non-constant window in exact
\* arithmetic
DeviationShows(k) ==
  IF InDoubles(x)
  THEN /\ Gt(Mul(Num(mult), ssStandardDeviation(Window(x, period, k)).v), Zero)
       /\ Ge(Mul(Num(mult), ssStandardDeviation(Window(x, period, k)).v),
             Mul(MathAbs(res.v.middle[k]), Epsilon))
  ELSE NonConstant(Window(x, period, k))

RampFixture ==
  [k \in 1..(DefaultSlowPeriod + DefaultSignalPeriod - 1) |-> FromInt(99 + k)]

\* prices 1 and 2 as whole numbers, 0.1 and 0.2 as doubles
MacdInputs ==
  {ToNums(s) : s \in SeqsUpTo(1..2, MaxMacdLen)}
  \cup {[k \in 1..Len(s) |-> Dec(s[k], 10)] : s \in SeqsUpTo(1..2, MaxMacdLen)}

\* the periods a caller passes: short ones in every order, or the defaults
InitMacd ==
  /\ \/ /\ x \in MacdInputs
        /\ fastPeriod \in 1..MaxMacdPeriod
        /\ slowPeriod \in 1..MaxMacdPeriod
        /\ signalPeriod \in 1..MaxMacdPeriod
     \/ /\ x = RampFixture
        /\ fastPeriod = DefaultFastPeriod
        /\ slowPeriod = DefaultSlowPeriod
        /\ signalPeriod = DefaultSignalPeriod
  /\ y = <<>>
  /\ period = DefaultRsiPeriod
  /\ conf = DefaultConfidenceLevel
  /\ mult = DefaultStdDevMultiplier
  /\ benchmarkPrices = Null
  /\ op = "none"
  /\ res = [t |-> "none"]
  /\ NoDocuments

CallMACD ==
  /\ op' = "calculateMACD"
  /\ res' = Ok(calculateMACD(x, fastPeriod, slowPeriod, signalPeriod))
  /\ UNCHANGED <<x, y, period, conf, mult>>
  /\ UNCHANGED <<otherArgs, documents>>

NextMacd == CallMACD

SpecMacd == InitMacd /\ [][NextMacd]_vars

\* one step of the recurrence from the previous value
EmaNext(prev, price, multiplier) == Add(Mul(Sub(price, prev), multiplier), prev)

RECURSIVE EmaAtPrice(_, _, _)
\* the EMA of period p that ends at the price of index i >= p - 1
EmaAtPrice(prices, p, i) ==
  IF i <= p - 1 THEN MeanOfRange(prices, 0, p)
  ELSE EmaNext(EmaAtPrice(prices, p, i - 1), At(prices, i),
               Div(Literal(prices, 2), Num(p + 1)))

MacdAligned ==
  fastPeriod >= 1 /\ signalPeriod >= 1 /\ fastPeriod < slowPeriod
    /\ Len(x) >= slowPeriod + signalPeriod - 1

\* C21: for fast < slow and len(prices) >= slow + signal - 1, macdLine has
\* length len(prices) - slow + 1 and macdLine[i] is the fast EMA minus the
\* slow EMA, both taken at the price index i + slow - 1
\* (fastEMA[i + slow - fast] - slowEMA[i]); signalLine is
\* calculateEMA(macdLine, signal); histogram has the length of signalLine,
\* len(prices) - slow - signal + 2, and histogram[i] is
\* macdLine[i + signal - 1] - signalLine[i]; no entry is undefined or NaN
C21_MacdSeriesAreAligned ==
  (op = "calculateMACD" /\ MacdAligned)
    => /\ res.t = "ok"
       /\ Len(res.v.macdLine) = Len(x) - slowPeriod + 1
       /\ \A i \in 0..(Len(x) - slowPeriod) :
            /\ At(res.v.macdLine, i) =
                 Sub(At(calculateEMA(x, fastPeriod), i + slowPeriod - fastPeriod),
                     At(calculateEMA(x, slowPeriod), i))
            /\ At(res.v.macdLine, i) =
                 Sub(EmaAtPrice(x, fastPeriod, i + slowPeriod - 1),
                     EmaAtPrice(x, slowPeriod, i + slowPeriod - 1))
            /\ ~IsNaN(At(res.v.macdLine, i))
       /\ res.v.signalLine = calculateEMA(res.v.macdLine, signalPeriod)
       /\ Len(res.v.signalLine) = Len(x) - slowPeriod - signalPeriod + 2
       /\ Len(res.v.histogram) = Len(res.v.signalLine)
       /\ \A i \in 0..(Len(x) - slowPeriod - signalPeriod + 1) :
            /\ At(res.v.histogram, i) =
                 Sub(At(res.v.macdLine, i + signalPeriod - 1),
                     At(res.v.signalLine, i))
            /\ ~IsNaN(At(res.v.histogram, i))
            /\ ~IsNaN(At(res.v.signalLine, i))

\* the default periods on 34 rising prices: 9 MACD values, one signal value
\* and one histogram value, the MACD line positive
C21_Witness ==
  /\ op = "calculateMACD"
  /\ x = RampFixture
  /\ fastPeriod = DefaultFastPeriod
  /\ Len(res.v.macdLine) = DefaultSignalPeriod
  /\ Len(res.v.histogram) = 1
  /\ Gt(At(res.v.macdLine, 0), Zero)

(***************************************************************************)
(* Callers of generateStatsSummary                                         *)
(***************************************************************************)
\* price series of the prices 1 and 2, held as doubles
SummaryInputs ==
  {[k \in 1..Len(s) |-> FromInt(s[k])] : s \in SeqsUpTo(1..2, MaxSummaryLen)}

\* a benchmark that rises and falls in turn: 1, 2, 1, 2, ...
BenchmarkSeries(n) == [k \in 1..n |-> FromInt(2 - (k % 2))]

\* no benchmark, an empty one, one of a single price, and the two longest
BenchmarkInputs ==
  {Null}
  \cup {Given(BenchmarkSeries(n)) : n \in {0, 1, MaxSummaryLen - 1, MaxSummaryLen}}

InitSummary ==
  /\ x \in SummaryInputs
  /\ benchmarkPrices \in BenchmarkInputs
  /\ y = <<>>
  /\ period = DefaultRsiPeriod
  /\ conf = Dec(95, 100)
  /\ mult = DefaultStdDevMultiplier
  /\ fastPeriod = DefaultFastPeriod
  /\ slowPeriod = DefaultSlowPeriod
  /\ signalPeriod = DefaultSignalPeriod
  /\ op = "none"
  /\ res = [t |-> "none"]
  /\ NoDocuments

CallStatsSummary ==
  /\ op' = "generateStatsSummary"
  /\ res' = generateStatsSummary(x, benchmarkPrices, Dec(2, 100), conf)
  /\ UNCHANGED <<x, y, period, conf, mult>>
  /\ UNCHANGED <<otherArgs, documents>>

NextSummary == CallStatsSummary

SpecSummary == InitSummary /\ [][NextSummary]_vars

KeysOf(keys) == {keys[k] : k \in 1..Len(keys)}

\* C22: generateStatsSummary(prices, benchmarkPrices) returns, without
\* throwing, a summary that contains beta, alpha and correlation whenever
\* benchmarkPrices is supplied and non-empty, for any prices of length >= 3
\* and any non-empty benchmark whatever its length; the summary contains
\* none of those three keys when benchmarkPrices is null or empty
C22_SummaryHasBenchmarkKeysIffBenchmark ==
  (op = "generateStatsSummary" /\ Len(x) >= 3)
    => /\ res.t = "ok"
       /\ IF HasBenchmark(benchmarkPrices)
          THEN KeysOf(BenchmarkKeys) \subseteq DOMAIN res.v
          ELSE KeysOf(BenchmarkKeys) \cap DOMAIN res.v = {}

\* a call that does return the three keys: five prices, five benchmark prices
C22_ReturnsWithBenchmark ==
  /\ op = "generateStatsSummary"
  /\ Len(x) = 5
  /\ benchmarkPrices.given /\ Len(benchmarkPrices.array) = 5
  /\ res.t = "ok"
  /\ KeysOf(BenchmarkKeys) \subseteq DOMAIN res.v

(***************************************************************************)
(* Callers of the tail-risk functions                                      *)
(***************************************************************************)
\* a confidence level just above 0: 2^-60, about 8.7e-19
TinyConfidence == <<1, <<1>>, -60>>

\* the confidence levels a caller passes, as the doubles the literals are:
\* 0, 0.25, 0.5, 0.75, 0.9, the default 0.95, 0.99 and 1, and the tiny one
ConfidenceLevels ==
  {Dec(c[1], c[2]) : c \in {Zero, <<1, 4>>, <<1, 2>>, <<3, 4>>, <<9, 10>>,
                        DefaultConfidenceLevel, <<99, 100>>, One}}
    \cup {TinyConfidence}

\* the returns of the tests of calculateVaR and calculateCVaR
TailFixture ==
  [k \in 1..10 |-> Dec(<<-5, -2, 1, 3, -1, 2, -3, 4, -2, 1>>[k], 100)]

\* return series of doubles: up to MaxTailLen returns, each -0.1, 0 or 0.1
TailInputs ==
  {[k \in 1..Len(s) |-> Dec(s[k], 10)] : s \in SeqsUpTo(-1..1, MaxTailLen)}
    \cup {TailFixture}

InitTail ==
  /\ x \in TailInputs
  /\ y = <<>>
  /\ period = 0
  /\ conf \in ConfidenceLevels
  /\ mult = DefaultStdDevMultiplier
  /\ op = "none"
  /\ res = [t |-> "none"]
  /\ EngineOnlyArgs
  /\ NoDocuments

CallVaR ==
  /\ op' = "calculateVaR"
  /\ res' = Ok(calculateVaR(x, conf))
  /\ x' = SortedCopy(x).returns
  /\ UNCHANGED <<y, period, conf, mult>>
  /\ UNCHANGED <<otherArgs, documents>>

CallCVaR ==
  /\ op' = "calculateCVaR"
  /\ res' = calculateCVaR(x, conf)
  /\ x' = SortedCopy(x).returns
  /\ UNCHANGED <<y, period, conf, mult>>
  /\ UNCHANGED <<otherArgs, documents>>

NextTail == CallVaR \/ CallCVaR

SpecTail == InitTail /\ [][NextTail]_vars

(***************************************************************************)
(* Properties of the tail-risk functions                                   *)
(***************************************************************************)
\* C11: for a non-empty return series and a confidence level 0 < c < 1,
\* calculateCVaR(returns, c) >= calculateVaR(returns, c)
C11_CVaRAtLeastVaR ==
  (op = "calculateCVaR" /\ Len(x) >= 1 /\ Lt(Zero, conf) /\ Lt(conf, One))
    => res.t = "ok" /\ Ge(res.v, calculateVaR(x, conf))

\* C12: for a non-empty return series and confidence levels 0 < c2 <= c1 < 1,
\* calculateVaR(returns, c1) >= calculateVaR(returns, c2)
C12_VaRMonotonicInConfidence ==
  (op = "calculateVaR" /\ Len(x) >= 1 /\ Lt(Zero, conf) /\ Lt(conf, One))
    => \A c2 \in ConfidenceLevels :
         (Lt(Zero, c2) /\ Le(c2, conf)) => Ge(res.v, calculateVaR(x, c2))

C12_Witness ==
  /\ op = "calculateVaR"
  /\ Len(x) >= 2
  /\ conf = Dec(99, 100)
  /\ \E c2 \in ConfidenceLevels :
       Lt(Zero, c2) /\ Lt(c2, conf) /\ Gt(res.v, calculateVaR(x, c2))

\* i is an index of arr
IsIndexOf(arr, i) == i >= 0 /\ i < Len(arr)

\* C25: for every non-empty return series of length n and every confidence
\* c with 0 < c <= 1, calculateVaR returns the negation of the element at
\* position floor((1 - c) * n) of the returns sorted ascending, and the
\* position is always a valid index of the series
C25_VaRIsNegatedElementAtValidIndex ==
  (op = "calculateVaR" /\ Len(x) >= 1 /\ Lt(Zero, conf) /\ Le(conf, One))
    => /\ IsIndexOf(x, CutoffIndex(x, conf)[1])
       /\ res.v = Neg(At(SortAscending(x), CutoffIndex(x, conf)[1]))

\* the part that holds: the value returned is the negated element at that
\* position whenever the position is an index
C25_VaRIsNegatedElementWhereIndexed ==
  (op = "calculateVaR" /\ IsIndexOf(x, CutoffIndex(x, conf)[1]))
    => res.v = Neg(At(SortAscending(x), CutoffIndex(x, conf)[1]))

(***************************************************************************)
(* Callers that keep their arrays: the functions that sort or truncate     *)
(***************************************************************************)
\* benchmark returns 0.1, -0.1, ... as doubles, of lengths 0 to 2
ShortBenchmarks ==
  {[k \in 1..n |-> Dec(<<1, -1>>[k], 10)] : n \in 0..2}

InitFrame ==
  /\ x \in TailInputs
  /\ y \in ShortBenchmarks
  /\ period = 0
  /\ conf = Dec(DefaultConfidenceLevel[1], DefaultConfidenceLevel[2])
  /\ mult = DefaultStdDevMultiplier
  /\ op = "none"
  /\ res = [t |-> "none"]
  /\ EngineOnlyArgs
  /\ NoDocuments

NextFrame == CallVaR \/ CallCVaR \/ CallBeta

SpecFrame == InitFrame /\ [][NextFrame]_vars

\* C23: no engine operation mutates its inputs: after a call of calculateVaR
\* or calculateCVaR (which sort) or calculateBeta (which truncates), every
\* array passed by the caller holds the same elements in the same order as
\* before the call
C23_InputsAreNotMutated == [][x' = x /\ y' = y]_vars

\* a call that sorted an unsorted series, and one that truncated a longer one
C23_Witness ==
  \/ /\ op \in {"calculateVaR", "calculateCVaR"}
     /\ SortAscending(x) # x
     /\ res.t = "ok"
  \/ /\ op = "calculateBeta"
     /\ Len(x) > Len(y)
     /\ Len(y) = 2

(***************************************************************************)
(* The estimator of calculateVolatility                                    *)
(***************************************************************************)
\* the square of a volatility returned by calculateVolatility: of the real
\* number sqrt(q) it is q
SquareOfRoot(r) ==
  IF IsZero(r) \/ NaN = r \/ PosInf = r THEN Mul(r, r)
  ELSE IF DOMAIN r = {"sqrt"} THEN r.sqrt
  ELSE Mul(r, r)

\* returns given as exact fractions
IsExactSeries(returns) == \A k \in 1..Len(returns) : ~IsDouble(returns[k])

\* C24: calculateVolatility uses the sample (n - 1) estimator: for every
\* return series of length n >= 2, volatility squared equals
\* tradingDays * sum((r_i - mean)^2) / (n - 1)
C24_VolatilityUsesSampleEstimator ==
  (op = "calculateVolatility" /\ Len(x) >= 2)
    => /\ res.t = "ok"
       /\ SquareOfRoot(res.v)
            = Mul(Num(DefaultTradingDays), ssSampleVariance(x).v)

\* what the code computes instead, on exact fractions: volatility squared is
\* tradingDays * sum((r_i - mean)^2) / n
C24_VolatilityUsesPopulationEstimator ==
  (op = "calculateVolatility" /\ Len(x) >= 2 /\ IsExactSeries(x))
    => /\ res.t = "ok"
       /\ SquareOfRoot(res.v)
            = Div(Mul(Num(DefaultTradingDays), SumSquaredDeviations(x)),
                  Num(Len(x)))

(***************************************************************************)
(* The returns route: cumulative returns of a price series                 *)
(***************************************************************************)
\* adjusted closes 1..MaxPrice as the doubles the store holds
DoublePriceInputs ==
  {[k \in 1..Len(s) |-> FromInt(s[k])] : s \in SeqsUpTo(1..MaxPrice, MaxCumLen)}

CumulativeInputs == PriceInputs \cup DoublePriceInputs

InitCumulative ==
  /\ x \in CumulativeInputs
  /\ y = <<>>
  /\ period = 0
  /\ conf = DefaultConfidenceLevel
  /\ mult = DefaultStdDevMultiplier
  /\ op = "none"
  /\ res = [t |-> "none"]
  /\ EngineOnlyArgs
  /\ NoDocuments

\* case 'cumulative': calculateCumulativeReturns(calculateReturns(prices));
\* y is the array of returns passed
CallCumulativeReturns ==
  /\ op' = "calculateCumulativeReturns"
  /\ y' = calculateReturns(x)
  /\ res' = Ok(calculateCumulativeReturns(calculateReturns(x)))
  /\ UNCHANGED <<x, period, conf, mult>>
  /\ UNCHANGED <<otherArgs, documents>>

NextCumulative == CallCumulativeReturns

SpecCumulative == InitCumulative /\ [][NextCumulative]_vars

RECURSIVE RunningProduct(_, _)
\* (1 + r[0]) * ... * (1 + r[i]), multiplied from the left
RunningProduct(returns, i) ==
  IF i < 0 THEN Literal(returns, 1)
  ELSE Mul(RunningProduct(returns, i - 1),
           Add(Literal(returns, 1), At(returns, i)))

\* prices[i+1] / prices[0] - 1
TotalReturnTo(prices, i) ==
  Sub(Div(At(prices, i + 1), At(prices, 0)), Literal(prices, 1))

\* expect(actual).toBeCloseTo(expected, 4): |expected - actual| < 10^-4 / 2
ToBeCloseTo(prices, actual, expected) ==
  Lt(MathAbs(Sub(expected, actual)),
     Div(Literal(prices, 1), Literal(prices, 20000)))

\* C26: calculateCumulativeReturns returns one value per input return with
\* cumulative[i] = product over k <= i of (1 + r[k]) minus 1, so that for
\* any series of n >= 2 non-zero prices
\* calculateCumulativeReturns(calculateReturns(prices))[i]
\* == prices[i+1] / prices[0] - 1 for every i in [0, n-2]
C26_CumulativeReturnsRebuildPrices ==
  (op = "calculateCumulativeReturns" /\ Len(x) >= 2 /\ AllNonZero(x))
    => /\ Len(res.v) = Len(y)
       /\ Len(res.v) = Len(x) - 1
       /\ \A i \in 0..(Len(x) - 2) :
            /\ At(res.v, i) = Sub(RunningProduct(y, i), Literal(y, 1))
            /\ At(res.v, i) = TotalReturnTo(x, i)

\* C26 as the code has it: the running product minus 1, equal to
\* prices[i+1] / prices[0] - 1 on exact fractions and close to it, as the
\* unit test measures closeness, on the doubles 1..MaxPrice
C26_CumulativeReturnsRebuildPricesUpToRounding ==
  (op = "calculateCumulativeReturns" /\ Len(x) >= 2 /\ AllNonZero(x))
    => /\ Len(res.v) = Len(y)
       /\ Len(res.v) = Len(x) - 1
       /\ \A i \in 0..(Len(x) - 2) :
            /\ At(res.v, i) = Sub(RunningProduct(y, i), Literal(y, 1))
            /\ IsExactSeries(x) => At(res.v, i) = TotalReturnTo(x, i)
            /\ ToBeCloseTo(x, At(res.v, i), TotalReturnTo(x, i))

\* three prices held as doubles whose round trip is rounded
C26_Witness ==
  /\ op = "calculateCumulativeReturns"
  /\ Len(x) = 3
  /\ ~IsExactSeries(x)
  /\ At(res.v, 1) # TotalReturnTo(x, 1)
  /\ ToBeCloseTo(x, At(res.v, 1), TotalReturnTo(x, 1))

(***************************************************************************)
(* Portfolio model: holdings kept by addTransaction                        *)
(* A string is the sequence of its characters.                             *)
(***************************************************************************)
\* String.prototype.toUpperCase on the characters in use
ToUpperCase(str) ==
  [k \in 1..Len(str) |->
     IF str[k] = "a" THEN "A" ELSE IF str[k] = "b" THEN "B" ELSE str[k]]

\* str from its first to its last character that is not a space
TrimTo(str, kept) ==
  SubSeq(str, CHOOSE k \in kept : \A j \in kept : k <= j,
              CHOOSE k \in kept : \A j \in kept : k >= j)

\* String.prototype.trim
Trim(str) ==
  IF \A k \in 1..Len(str) : str[k] = " " THEN <<>>
  ELSE TrimTo(str, {k \in 1..Len(str) : str[k] # " "})

\* holdingSchema: the subdocument a pushed object is cast to; symbol has the
\* setters uppercase and trim
HoldingDocument(holding) ==
  [holding EXCEPT !.symbol = Trim(ToUpperCase(holding.symbol))]

\* transactionSchema: symbol has the setters uppercase and trim
TransactionDocument(transaction) ==
  [transaction EXCEPT !.symbol = Trim(ToUpperCase(transaction.symbol))]

\* this.holdings.find(h => h.symbol === symbol): the position of the first
\* such holding, 0 for undefined
FindHolding(holdings, symbol) ==
  IF \E k \in 1..Len(holdings) : holdings[k].symbol = symbol
  THEN CHOOSE k \in 1..Len(holdings) :
         /\ holdings[k].symbol = symbol
         /\ \A j \in 1..(k - 1) : holdings[j].symbol # symbol
  ELSE 0

\* totalCost / totalShares becomes the average cost, totalShares the shares
Averaged(existingHolding, totalShares, totalCost) ==
  [existingHolding EXCEPT !.averageCost = Div(totalCost, totalShares),
                          !.shares = totalShares]

\* the branch of an existing holding of a buy
BuyMore(existingHolding, transaction) ==
  Averaged(existingHolding,
           Add(existingHolding.shares, transaction.shares),
           Add(Mul(existingHolding.shares, existingHolding.averageCost),
               Mul(transaction.shares, transaction.price)))

\* the holdings after a buy, existing being the position found
HoldingsAfterBuy(holdings, transaction, existing) ==
  IF existing # 0
  THEN [holdings EXCEPT ![existing] = BuyMore(holdings[existing], transaction)]
  ELSE Append(holdings,
              HoldingDocument([symbol |-> ToUpperCase(transaction.symbol),
                               shares |-> transaction.shares,
                               averageCost |-> transaction.price]))

\* this.holdings.filter(h => h.symbol !== symbol) if the shares sold leave
\* none
WithoutSoldOut(holdings, existing, symbol) ==
  IF Le(holdings[existing].shares, Zero)
  THEN SelectSeq(holdings, LAMBDA h : h.symbol # symbol)
  ELSE holdings

\* the holdings after a sell, existing being the position found
HoldingsAfterSell(holdings, transaction, existing) ==
  IF existing # 0
  THEN WithoutSoldOut(
         [holdings EXCEPT ![existing].shares = Sub(@, transaction.shares)],
         existing, ToUpperCase(transaction.symbol))
  ELSE holdings

\* the three branches on transaction.type; a split changes nothing
AfterType(this, transaction, existing, amount) ==
  CASE transaction.type = "buy" ->
         [this EXCEPT
            !.holdings = HoldingsAfterBuy(@, transaction, existing),
            !.cashBalance = Sub(@, Add(amount, transaction.fees))]
    [] transaction.type = "sell" ->
         [this EXCEPT
            !.holdings = HoldingsAfterSell(@, transaction, existing),
            !.cashBalance = Add(@, Sub(amount, transaction.fees))]
    [] transaction.type = "dividend" ->
         [this EXCEPT !.cashBalance = Add(@, amount)]
    [] OTHER -> this

\* portfolioSchema.methods.addTransaction
addTransaction(this, transaction) ==
  AfterType([this EXCEPT
               !.transactions = Append(@, TransactionDocument(transaction))],
            transaction,
            FindHolding(this.holdings, ToUpperCase(transaction.symbol)),
            Mul(transaction.shares, transaction.price))

\* the validators run by save(): a symbol is required (not empty), shares and
\* average cost of a holding are at least 0
IsValidPortfolio(doc) ==
  /\ \A k \in 1..Len(doc.transactions) : doc.transactions[k].symbol # <<>>
  /\ \A k \in 1..Len(doc.holdings) :
       /\ doc.holdings[k].symbol # <<>>
       /\ Ge(doc.holdings[k].shares, Zero)
       /\ Ge(doc.holdings[k].averageCost, Zero)

\* await portfolio.save(): the stored document and the response
Saved(doc, stored) ==
  IF IsValidPortfolio(doc)
  THEN [portfolio |-> doc, res |-> Ok(201)]
  ELSE [portfolio |-> stored, res |-> Throw("ValidationError")]

\* body('type').isIn([...])
TransactionTypes == {"buy", "sell", "dividend", "split"}

\* symbols of 1 to 10 characters as body('symbol') admits them
SymbolInputs == {<<"a">>, <<" ", "A">>, <<"B">>, <<" ">>}

\* the price of every request
TradePrice == One

InitTransactions ==
  /\ x = <<>>
  /\ y = <<>>
  /\ period = 0
  /\ conf = DefaultConfidenceLevel
  /\ mult = DefaultStdDevMultiplier
  /\ op = "none"
  /\ res = [t |-> "none"]
  /\ EngineOnlyArgs
  /\ NoDocuments

\* POST /api/portfolio/:id/transaction with a valid body, fees left out
PostTransaction ==
  /\ Len(portfolio.transactions) < MaxTransactions
  /\ \E type \in TransactionTypes, symbol \in SymbolInputs,
        shares \in 1..MaxShares :
       /\ portfolio' =
            Saved(addTransaction(portfolio,
                    [type |-> type, symbol |-> ToUpperCase(symbol),
                     shares |-> Num(shares), price |-> TradePrice,
                     fees |-> Zero]),
                  portfolio).portfolio
       /\ res' =
            Saved(addTransaction(portfolio,
                    [type |-> type, symbol |-> ToUpperCase(symbol),
                     shares |-> Num(shares), price |-> TradePrice,
                     fees |-> Zero]),
                  portfolio).res
  /\ op' = "addTransaction"
  /\ UNCHANGED <<x, y, period, conf, mult, stocks>>
  /\ UNCHANGED otherArgs

NextTransactions == PostTransaction

SpecTransactions == InitTransactions /\ [][NextTransactions]_vars

\* C29: after any sequence of addTransaction calls (types buy, sell,
\* dividend, split, each with shares > 0 and price >= 0) on a portfolio that
\* starts with no holdings, the holdings list contains at most one entry per
\* symbol and every entry has shares > 0
C29_HoldingsUniqueAndPositive ==
  /\ \A j, k \in 1..Len(portfolio.holdings) :
       portfolio.holdings[j].symbol = portfolio.holdings[k].symbol => j = k
  /\ \A k \in 1..Len(portfolio.holdings) :
       Gt(portfolio.holdings[k].shares, Zero)

\* the half that holds: no holding is left with shares of 0 or less
C29_HoldingsPositive ==
  \A k \in 1..Len(portfolio.holdings) : Gt(portfolio.holdings[k].shares, Zero)

(***************************************************************************)
(* Market data: the stocks of the store and their price history            *)
(* A date is its day number.  Of a price record the date and the two       *)
(* closes are kept; open, high, low and volume are copied the same way and *)
(* read by nothing.                                                        *)
(***************************************************************************)
\* Stock.findBySymbol(symbol): the position of the stock in the store, 0 for
\* null
findBySymbol(store, symbol) ==
  IF \E k \in 1..Len(store) : store[k].symbol = ToUpperCase(symbol)
  THEN CHOOSE k \in 1..Len(store) : store[k].symbol = ToUpperCase(symbol)
  ELSE 0

\* new Stock({symbol: symbol.toUpperCase(), ...}) through stockSchema
StockDocument(symbol) ==
  [symbol |-> Trim(ToUpperCase(symbol)), priceHistory |-> <<>>]

\* prices.map(p => ({date: new Date(p.date), close: parseFloat(p.close),
\* adjustedClose: parseFloat(p.adjustedClose || p.close), ...}))
NewPrices(prices) ==
  [k \in 1..Len(prices) |->
     [date |-> prices[k].date,
      close |-> Num(prices[k].close),
      adjustedClose |-> Num(prices[k].close)]]

\* newPrices.filter(p => !existingDates.has(p.date.toISOString()))
UniqueNewPrices(priceHistory, newPrices) ==
  SelectSeq(newPrices,
            LAMBDA p : \A k \in 1..Len(priceHistory) :
                         priceHistory[k].date # p.date)

\* p put behind the n records of sorted that are not later than it
InsertedAt(sorted, p, n) ==
  SubSeq(sorted, 1, n) \o <<p>> \o SubSeq(sorted, n + 1, Len(sorted))

RECURSIVE SortByDate(_)
\* priceHistory.sort((a, b) => new Date(a.date) - new Date(b.date)): a stable
\* sort, records of one date keep their order
SortByDate(records) ==
  IF Len(records) <= 1 THEN records
  ELSE InsertedAt(SortByDate(SubSeq(records, 1, Len(records) - 1)),
                  records[Len(records)],
                  Cardinality({k \in 1..(Len(records) - 1) :
                                 records[k].date <= records[Len(records)].date}))

\* push(...uniqueNewPrices), sort and save: the store and the response
PricesAdded(store, k, uniqueNewPrices) ==
  [stocks |-> [store EXCEPT ![k].priceHistory =
                              SortByDate(@ \o uniqueNewPrices)],
   res |-> Ok([status |-> 201,
               added |-> Len(uniqueNewPrices),
               totalRecords |-> Len(store[k].priceHistory)
                                  + Len(uniqueNewPrices)])]

\* the handler from the stock found at position k, 0 for none
PricesPosted(store, k, prices) ==
  IF k = 0 THEN [stocks |-> store, res |-> Ok([status |-> 404])]
  ELSE PricesAdded(store, k,
                   UniqueNewPrices(store[k].priceHistory, NewPrices(prices)))

\* symbols sent to the market data routes
StockSymbols == {<<"a">>, <<"B">>}

\* request bodies: arrays of 1 to MaxBodyLen records of a date and a close
PriceBodies ==
  UNION {[1..n -> [date : 1..MaxDate, close : {1}]] : n \in 1..MaxBodyLen}

InitMarketData ==
  /\ x = <<>>
  /\ y = <<>>
  /\ period = 0
  /\ conf = DefaultConfidenceLevel
  /\ mult = DefaultStdDevMultiplier
  /\ op = "none"
  /\ res = [t |-> "none"]
  /\ EngineOnlyArgs
  /\ NoDocuments

\* POST /api/market-data/stocks: a stock found is updated in fields the
\* model does not keep, otherwise a new stock is stored
PostStock ==
  /\ \E symbol \in StockSymbols :
       /\ stocks' = IF findBySymbol(stocks, symbol) # 0 THEN stocks
                    ELSE Append(stocks, StockDocument(symbol))
       /\ res' = Ok([status |-> 201])
  /\ op' = "postStock"
  /\ UNCHANGED <<x, y, period, conf, mult, portfolio>>
  /\ UNCHANGED otherArgs

\* POST /api/market-data/stocks/:symbol/prices
PostPrices ==
  /\ \E symbol \in StockSymbols, prices \in PriceBodies :
       /\ findBySymbol(stocks, symbol) # 0 =>
            Len(stocks[findBySymbol(stocks, symbol)].priceHistory)
              + Len(prices) <= MaxHistory
       /\ stocks' =
            PricesPosted(stocks, findBySymbol(stocks, symbol), prices).stocks
       /\ res' =
            PricesPosted(stocks, findBySymbol(stocks, symbol), prices).res
  /\ op' = "postPrices"
  /\ UNCHANGED <<x, y, period, conf, mult, portfolio>>
  /\ UNCHANGED otherArgs

NextMarketData == PostStock \/ PostPrices

SpecMarketData == InitMarketData /\ [][NextMarketData]_vars

\* records in ascending order of date
SortedByDate(records) ==
  \A j, k \in 1..Len(records) : j < k => records[j].date <= records[k].date

\* C30: after any sequence of POST /api/market-data/stocks/:symbol/prices
\* requests on a stock, with any request bodies, the stock's priceHistory is
\* sorted ascending by date and contains no two records with the same date
C30_PriceHistorySortedWithoutDuplicates ==
  \A s \in 1..Len(stocks) :
    /\ SortedByDate(stocks[s].priceHistory)
    /\ \A j, k \in 1..Len(stocks[s].priceHistory) :
         stocks[s].priceHistory[j].date = stocks[s].priceHistory[k].date
           => j = k

\* the half that holds: every price history is in ascending order of date
C30_PriceHistorySorted ==
  \A s \in 1..Len(stocks) : SortedByDate(stocks[s].priceHistory)

(***************************************************************************)
(* Portfolio risk: GET /api/portfolio/:id/risk                             *)
(***************************************************************************)
\* a stock enters the analysis with more price records than this
MinPriceRecords == 30

\* the number of latest price records read
RiskWindow == 252

\* the first value of portfolioPrices
StartValue == 100

RECURSIVE HoldingsValue(_, _)
\* holdings.reduce((sum, h) => sum + h.shares * h.averageCost, 0) over the
\* first n holdings
HoldingsValue(holdings, n) ==
  IF n = 0 THEN Zero
  ELSE Add(HoldingsValue(holdings, n - 1),
           Mul(holdings[n].shares, holdings[n].averageCost))

\* the allocation entries of the holdings and of the cash, given totalValue
AllocationOf(this, totalValue) ==
  [k \in 1..Len(this.holdings) |->
     [symbol |-> this.holdings[k].symbol,
      value |-> Mul(this.holdings[k].shares, this.holdings[k].averageCost),
      percentage |->
        Mul(Div(Mul(this.holdings[k].shares, this.holdings[k].averageCost),
                totalValue), Num(100))]]
    \o <<[symbol |-> <<"C", "A", "S", "H">>,
          value |-> this.cashBalance,
          percentage |-> Mul(Div(this.cashBalance, totalValue), Num(100))]>>

\* portfolioSchema.methods.getAllocation
getAllocation(this) ==
  AllocationOf(this,
               Add(HoldingsValue(this.holdings, Len(this.holdings)),
                   this.cashBalance))

\* allocation.find(a => a.symbol === symbol): its position, 0 for undefined
FindAllocation(allocation, symbol) ==
  IF \E k \in 1..Len(allocation) : allocation[k].symbol = symbol
  THEN CHOOSE k \in 1..Len(allocation) :
         /\ allocation[k].symbol = symbol
         /\ \A j \in 1..(k - 1) : allocation[j].symbol # symbol
  ELSE 0

\* alloc ? alloc.value / totalValue : 0
WeightOfSymbol(allocation, totalValue, symbol) ==
  IF FindAllocation(allocation, symbol) = 0 THEN Zero
  ELSE Div(allocation[FindAllocation(allocation, symbol)].value, totalValue)

\* portfolio.holdings.map(h => ...): one weight per holding, in the order of
\* the holdings
WeightsFrom(holdings, allocation) ==
  [k \in 1..Len(holdings) |->
     WeightOfSymbol(allocation,
                    Sum([a \in 1..Len(allocation) |-> allocation[a].value]),
                    holdings[k].symbol)]

\* allocation, totalValue and weights of the handler
Weights(doc) == WeightsFrom(doc.holdings, getAllocation(doc))

\* Stock.find({symbol: {$in: symbols}}): the stocks of the store whose symbol
\* is one of a holding, in the order of the store
FindStocks(store, holdings) ==
  SelectSeq(store, LAMBDA stock :
                     \E k \in 1..Len(holdings) :
                       holdings[k].symbol = stock.symbol)

\* the stocks that pass if (stock.priceHistory.length > 30)
IncludedStocks(found) ==
  SelectSeq(found, LAMBDA stock : Len(stock.priceHistory) > MinPriceRecords)

\* stock.priceHistory.slice(-252).map(p => p.adjustedClose)
LatestCloses(priceHistory) ==
  [k \in 1..Min(Len(priceHistory), RiskWindow) |->
     priceHistory[Len(priceHistory) - Min(Len(priceHistory), RiskWindow) + k]
       .adjustedClose]

\* stockReturns: one array of returns per included stock
StockReturns(included) ==
  [j \in 1..Len(included) |->
     calculateReturns(LatestCloses(included[j].priceHistory))]

\* Math.min(...stockReturns.map(r => r.length))
MinReturnsLength(stockReturns) ==
  CHOOSE n \in {Len(stockReturns[j]) : j \in 1..Len(stockReturns)} :
    \A j \in 1..Len(stockReturns) : n <= Len(stockReturns[j])

\* weights[j] || 0, j counted from 0: 0 for undefined, 0 and NaN
WeightOrZero(weights, j) ==
  IF j >= Len(weights) THEN Zero
  ELSE IF IsNaN(weights[j + 1]) THEN Zero
  ELSE weights[j + 1]

RECURSIVE WeightedReturn(_, _, _, _)
\* weightedReturn after the inner loop has passed the first n stocks
WeightedReturn(stockReturns, weights, i, n) ==
  IF n = 0 THEN Zero
  ELSE Add(WeightedReturn(stockReturns, weights, i, n - 1),
           Mul(At(stockReturns[n], i), WeightOrZero(weights, n - 1)))

\* portfolioReturns
PortfolioReturns(stockReturns, weights) ==
  [k \in 1..MinReturnsLength(stockReturns) |->
     WeightedReturn(stockReturns, weights, k - 1, Len(stockReturns))]

RECURSIVE PortfolioPricesFrom(_, _)
\* portfolioReturns.forEach(r => portfolioPrices.push(last * (1 + r))) from
\* its state st
PortfolioPricesFrom(returns, st) ==
  IF st.i >= Len(returns) THEN st.portfolioPrices
  ELSE PortfolioPricesFrom(returns,
         [i |-> st.i + 1,
          portfolioPrices |->
            Append(st.portfolioPrices,
                   Mul(st.portfolioPrices[Len(st.portfolioPrices)],
                       Add(One, At(returns, st.i))))])

PortfolioPrices(returns) ==
  PortfolioPricesFrom(returns,
                      [i |-> 0, portfolioPrices |-> <<Num(StartValue)>>])

\* whether the handler ends early with status 400: no holdings, or no stock
\* with enough price records
IsRefused(doc, included) == Len(doc.holdings) = 0 \/ Len(included) = 0

\* portfolioReturns as the handler leaves it: empty when it ends early
ReturnsOfPortfolio(doc, included) ==
  IF IsRefused(doc, included) THEN <<>>
  ELSE PortfolioReturns(StockReturns(included), Weights(doc))

\* portfolioPrices as the handler leaves it
PricesOfPortfolio(doc, included, portfolioReturns) ==
  IF IsRefused(doc, included) THEN <<>>
  ELSE PortfolioPrices(portfolioReturns)

\* the response of the handler: its status and, in res.json({period:
\* minLength, riskMetrics: {...}}), the period; each value of riskMetrics is
\* a function of the engine applied to portfolioReturns or portfolioPrices
RiskResponse(doc, included, portfolioReturns) ==
  IF IsRefused(doc, included) THEN Ok([status |-> 400])
  ELSE Ok([status |-> 200, period |-> Len(portfolioReturns)])

\* a price history of n days, its Numbers being doubles: the adjusted close
\* is 1 and, on the last day, last
HistoryOf(n, last) ==
  [k \in 1..n |->
     [date |-> k, close |-> FromInt(1),
      adjustedClose |-> IF k = n THEN FromInt(last) ELSE FromInt(1)]]

\* the stocks A and B, each with a history too short for the analysis or
\* one of 31 days; the last close of A is 2, of B 3
RiskStocks ==
  {[symbol |-> <<"A">>, priceHistory |-> HistoryOf(n, 2)]
     : n \in {MaxHistory, MinPriceRecords + 1}}
  \cup {[symbol |-> <<"B">>, priceHistory |-> HistoryOf(n, 3)]
          : n \in {MaxHistory, MinPriceRecords + 1}}

\* sequences without repetition of a symbol
DistinctSymbols(docs) ==
  \A j, k \in 1..Len(docs) : docs[j].symbol = docs[k].symbol => j = k

\* the stores: the stocks in any order of creation
RiskStores == {store \in SeqsUpTo(RiskStocks, 2) : DistinctSymbols(store)}

\* the cash a portfolio is created with
StartingCash == {FromInt(4), FromInt(8)}

RECURSIVE Bought(_, _)
\* the portfolio after the buys of a list of requests
Bought(doc, buys) ==
  IF Len(buys) = 0 THEN doc
  ELSE addTransaction(Bought(doc, SubSeq(buys, 1, Len(buys) - 1)),
                      [type |-> "buy",
                       symbol |-> buys[Len(buys)].symbol,
                       shares |-> FromInt(buys[Len(buys)].shares),
                       price |-> FromInt(1),
                       fees |-> Zero])

\* the portfolios, their Numbers being doubles: created with some cash, then
\* one buy at the price 1 for each of up to two symbols
RiskPortfolios ==
  {Bought([NewPortfolio EXCEPT !.cashBalance = cash], buys)
     : cash \in StartingCash,
       buys \in {b \in SeqsUpTo([symbol : {<<"A">>, <<"B">>},
                                shares : 1..MaxShares], 2)
                   : DistinctSymbols(b)}}

InitRisk ==
  /\ x = <<>>
  /\ y = <<>>
  /\ period = 0
  /\ conf = DefaultConfidenceLevel
  /\ mult = DefaultStdDevMultiplier
  /\ op = "none"
  /\ res = [t |-> "none"]
  /\ EngineOnlyArgs
  /\ portfolio \in RiskPortfolios
  /\ stocks \in RiskStores

\* GET /api/portfolio/:id/risk; y is portfolioReturns and x portfolioPrices
\* as the handler leaves them
GetRisk ==
  /\ op' = "getRisk"
  /\ y' = ReturnsOfPortfolio(portfolio,
             IncludedStocks(FindStocks(stocks, portfolio.holdings)))
  /\ x' = PricesOfPortfolio(portfolio,
             IncludedStocks(FindStocks(stocks, portfolio.holdings)), y')
  /\ res' = RiskResponse(portfolio,
                         IncludedStocks(FindStocks(stocks, portfolio.holdings)),
                         y')
  /\ UNCHANGED <<period, conf, mult>>
  /\ UNCHANGED <<otherArgs, documents>>

NextRisk == GetRisk

SpecRisk == InitRisk /\ [][NextRisk]_vars

\* the weight of the holding of a symbol
OwnWeight(doc, symbol) ==
  Weights(doc)[CHOOSE k \in 1..Len(doc.holdings) :
                 doc.holdings[k].symbol = symbol]

\* C28: in GET /api/portfolio/:id/risk every return series is weighted by
\* the allocation weight of its own symbol: for every stock j included in the
\* weighted portfolio return, the weight multiplied into stockReturns[j][i]
\* is the weight of the holding whose symbol equals that stock's symbol, for
\* every order of the store and every subset of stocks skipped
C28_SeriesWeightedByOwnSymbol ==
  (op = "getRisk" /\ res.t = "ok" /\ res.v.status = 200)
    => \A j \in 1..Len(IncludedStocks(FindStocks(stocks, portfolio.holdings))) :
         WeightOrZero(Weights(portfolio), j - 1)
           = OwnWeight(portfolio,
               IncludedStocks(FindStocks(stocks, portfolio.holdings))[j].symbol)

====
